---- MODULE Spec2Model ----
(***************************************************************************)
(* Model of the reasoning clients (services/ollama_client.py,              *)
(* services/intelligent_analyzer.py) and of the compliance engine          *)
(* (services/compliance_checker.py) of the legal compliance checker.       *)
(*                                                                         *)
(* A string is modelled by what the code looks at: the literal it starts   *)
(* with (pfx), its length after strip() (len) and the labelled fields a    *)
(* regular expression can find in it (content, a function from the labels  *)
(* that occur to the captured values).                                     *)
(*                                                                         *)
(* The variable scenario names the entry point a behaviour exercises:      *)
(*   "retry"    one generate_with_retry / generate_with_context call       *)
(*   "classify" analyze_document_type_and_structure + _create_safe_metadata*)
(*   "batch"    _check_compliance_safely -> batch_compliance_check         *)
(*   "criteria" analyze_criteria_coverage                                  *)
(*   "requirements" _extract_requirements_safely                           *)
(*   "items"    _create_safe_policy_items, the assessment and the feedback *)
(*              of generate_intelligent_checklist, on any pair of lists    *)
(*   "assess"   the assessment and the feedback of a checklist of 1, 10 or *)
(*              MaxChecklist items                                         *)
(*   "pipeline" rewards_analysis_pipeline and get_analysis_status (main.py)*)
(*   "prompt"   the prompt generate / _generate_completion put in a request*)
(*   "startup"  lifespan, the initialization of the clients and the first  *)
(*              generate calls                                             *)
(*   "run"      the stages of analyze_documents followed by                *)
(*              generate_intelligent_checklist                             *)
(*   "context"  _determine_comparison_context                              *)
(***************************************************************************)
EXTENDS Integers, Sequences, FiniteSets, TLC

VARIABLES
    scenario,      \* entry point exercised by this behaviour
    client,        \* "ollama" (IntelligentAnalyzer) or "policy" (IntelligentPolicyAnalyzer)
    calling,       \* a generate_with_retry / generate_with_context call is in progress
    attempt,       \* loop variable of the retry loop
    requests,      \* POST /api/generate requests sent by the current call
    returned,      \* the current call has returned
    ret,           \* its return value
    log,           \* per attempt of the current call: outcome, text, accepted
    docText,       \* classify: keyword groups occurring in text_sample
    analysis,      \* classify: dictionary returned by _parse_simple_response
    metadata,      \* classify: DocumentMetadata built by _create_safe_metadata
    phase,         \* position of the scenario's coroutine
    requirements,  \* batch: the requirement list
    results,       \* batch: the results list being appended to
    calls,         \* batch: per requirement the loop is done with, how its call ended
    inflight,      \* batch / criteria: per-item calls holding the semaphore
    tasks,         \* criteria: per criteria task, its state (attempt and requests
                   \* are those of its call while it runs)
    doneOrder,     \* criteria: indices of the tasks in completion order
    critResults,   \* criteria: list returned by analyze_criteria_coverage
    analysis_context, \* items: whether the context has the keys the engine reads
    policy_items,  \* items / assess: list returned by _create_safe_policy_items
    assessment,    \* items / assess: dictionary of _generate_assessment_safely
    checklist,     \* items / assess: the PolicyChecklist returned
    docs,          \* pipeline: the uploaded PDFs, the target document last
    texts,         \* pipeline: lengths of the texts accepted so far
    files,         \* pipeline: files of the task in reports/
    error_msg,     \* pipeline: what the error file says
    performed,     \* pipeline: phases the run has entered
    progress_info, \* pipeline: current_phase in the progress file
    reply,         \* pipeline: what the last status query was answered
    prompt,        \* prompt: length of the prompt handed to the client
    payload,       \* prompt: the prompt of the request posted
    session,       \* startup: per client, whether its session is open
    model_checked, \* startup: per client, whether _ensure_model_available
                   \* has returned
    init_task,     \* startup: position of the task the engine scheduled
    served,        \* startup: the generate calls made, with the state of the
                   \* client each one found
    stage_log,     \* run: the stages of the run, in the order of their
                   \* beginnings and ends
    doc_types,     \* context: document_type of doc1_analysis and doc2_analysis
    comparison     \* context: the comparison context returned

vars == <<scenario, client, calling, attempt, requests, returned, ret, log,
          docText, analysis, metadata, phase, requirements, results, calls,
          inflight, tasks, doneOrder, critResults, analysis_context,
          policy_items, assessment, checklist, docs, texts, files, error_msg,
          performed, progress_info, reply, prompt, payload, session,
          model_checked, init_task, served, stage_log, doc_types, comparison>>

retryVars == <<calling, attempt, requests, returned, ret, log>>
classifyVars == <<docText, analysis, metadata>>
batchVars == <<requirements, results, calls>>
criteriaVars == <<tasks, doneOrder, critResults>>
checklistVars == <<analysis_context, policy_items, assessment, checklist>>
pipelineVars == <<docs, texts, files, error_msg, performed, progress_info, reply>>
promptVars == <<prompt, payload>>
startupVars == <<session, model_checked, init_task, served>>
runVars == <<stage_log>>
contextVars == <<doc_types, comparison>>
engineVars == <<promptVars, startupVars, runVars, contextVars>>

----------------------------------------------------------------------------
(* Bounds of the model *)

\* longest requirement list handed to batch_compliance_check
MaxReqs == 2
\* len(LongCategory), a category string longer than the 50 characters kept
LongCategoryLen == 61
\* number of entries of the criteria framework that are analysed
NumCriteria == 3
\* longest key_topics list of a law profile
MaxTopics == 4
\* longest checklist that is assessed
MaxChecklist == 100
\* largest number of reference documents of a run
MaxRefs == 2

----------------------------------------------------------------------------
(* Program constants *)

max_retries == 3
\* len(result.strip()) > 50 in generate_with_context
MinResponseLen == 50
\* len("HTTP Error 500: ")
HttpErrorHeadLen == 16
\* len("Connection Error: ")
ConnErrorHeadLen == 18
\* len("Error: Request timeout")
TimeoutTextLen == 22
\* len("Error: All retry attempts failed")
AllFailedLen == 32
\* asyncio.Semaphore(1) of batch_compliance_check
BatchSemaphore == 1
\* asyncio.Semaphore(2) of analyze_criteria_coverage
CriteriaSemaphore == 2
\* len(text) < 200 in rewards_analysis_pipeline
MinTextLen == 200
\* len(raw_text) < 100 in extract_text and intelligent_extract_text
SmallTextLen == 100
\* len("EXTRACTION_ERROR: ")
ExtractionErrorLen == 18
\* len("Critical error extracting from " + ": ")
CriticalErrorLen == 33
\* length of the extraction report for an empty file name and an empty text
ExtractionReportLen == 1248
\* length of the name of a NamedTemporaryFile(suffix='.pdf')
TempPathLen == 20
\* config.MAX_PROMPT_LENGTH
MAX_PROMPT_LENGTH == 8000

----------------------------------------------------------------------------
(* Strings *)

NoContent == [l \in {} |-> ""]

Has(c, l) == l \in DOMAIN c

Text(p, n, c) == [pfx |-> p, len |-> n, content |-> c]

EmptyText == Text("", 0, NoContent)

\* str.startswith(p) for the literals the code tests
StartsWith(t, p) == t.len > 0 /\ t.pfx = p

\* A reply of the backend to one POST /api/generate:
\*   kind "ok"      status 200; pfx/len/content describe result['response'].strip()
\*   kind "http"    another status; len/content describe the response body
\*   kind "timeout" asyncio.TimeoutError
\*   kind "conn"    any other exception of the request (connection refused, session
\*                  still None, undecodable body); len is the length of str(e)
Outcome(k, p, n, c) == [kind |-> k, pfx |-> p, len |-> n, content |-> c]

\* generate / _generate_completion: the string returned for a backend reply
generate(o) ==
    CASE o.kind = "ok" -> Text(o.pfx, o.len, o.content)
      [] o.kind = "http" -> Text("HTTP Error", HttpErrorHeadLen + o.len, o.content)
      [] o.kind = "timeout" -> Text("Error:", TimeoutTextLen, NoContent)
      [] OTHER -> Text("Connection Error:", ConnErrorHeadLen + o.len, NoContent)

\* the test of generate_with_retry (ollama_client.py:66)
AcceptOllama(t) ==
    t.len > 0 /\ ~StartsWith(t, "Error:") /\ ~StartsWith(t, "HTTP Error")

\* the test of generate_with_context (intelligent_analyzer.py:67)
AcceptPolicy(t) ==
    t.len > 0 /\ ~StartsWith(t, "Error:") /\ t.len > MinResponseLen

Accept(cl, t) == IF cl = "ollama" THEN AcceptOllama(t) ELSE AcceptPolicy(t)

\* return "Error: All retry attempts failed"
AllFailedText == Text("Error:", AllFailedLen, NoContent)

\* RetryStep with the return on an accepted result missing: the loop goes on
RetryStepKeepsGoing(cl, s, o) ==
    LET t == generate(o)
        ok == Accept(cl, t)
        last == s.attempt + 1 >= max_retries
    IN  [attempt |-> s.attempt + 1,
         requests |-> s.requests + 1,
         returned |-> last,
         ret |-> IF last THEN (IF ok THEN t ELSE AllFailedText) ELSE EmptyText,
         log |-> Append(s.log, [outcome |-> o, text |-> t, accepted |-> ok])]

\* RetryStep returning the last attempt's text when the loop runs out
RetryStepNoSentinel(cl, s, o) ==
    LET t == generate(o)
        ok == Accept(cl, t)
        last == s.attempt + 1 >= max_retries
    IN  [attempt |-> IF ok THEN s.attempt ELSE s.attempt + 1,
         requests |-> s.requests + 1,
         returned |-> ok \/ last,
         ret |-> IF ok \/ last THEN t ELSE EmptyText,
         log |-> Append(s.log, [outcome |-> o, text |-> t, accepted |-> ok])]

\* One iteration of the retry loop of client cl, in loop state s, on backend
\* reply o: one request is sent; an accepted result is returned; a rejected one
\* moves to the next iteration, and the loop running out returns the sentinel.
RetryStep(cl, s, o) ==
    LET t == generate(o)
        ok == Accept(cl, t)
        entry == [outcome |-> o, text |-> t, accepted |-> ok]
    IN  [attempt |-> IF ok THEN s.attempt ELSE s.attempt + 1,
         requests |-> s.requests + 1,
         returned |-> ok \/ s.attempt + 1 >= max_retries,
         ret |-> IF ok THEN t
                 ELSE IF s.attempt + 1 >= max_retries THEN AllFailedText
                 ELSE EmptyText,
         log |-> Append(s.log, entry)]

----------------------------------------------------------------------------
(* Document classification: analyze_document_type_and_structure *)

\* a short string: the literal it is, or "parsed" for text taken from a response
Str(l, n) == [lit |-> l, len |-> n]

NoneStr == Str("None", 0)

Min(a, b) == IF a < b THEN a ELSE b

\* a slice that does not cut
TakeAll(s, n) == s

\* s[:n]
Take(s, n) == SubSeq(s, 1, Min(n, Len(s)))

\* [x.strip() for x in s.split(',') if x.strip()]
Pieces(s) == SelectSeq(s, LAMBDA x : x # "")

\* the members of models.schemas.DocumentType
DocumentType ==
    {"POLICY", "LAW", "REGULATION", "STANDARD", "CONTRACT", "GUIDELINE",
     "FRAMEWORK", "DECREE", "CODE", "CIRCULAR", "NOTICE", "UNKNOWN"}

\* the list _parse_simple_response tests the TYPE token against
RecognizedTypes ==
    {"LAW", "REGULATION", "CONTRACT", "POLICY", "DECREE", "STANDARD",
     "GUIDELINE", "AMENDMENT", "CODE", "CIRCULAR", "NOTICE"}

\* keyword groups of _infer_document_type; a document text is the set of the
\* groups of which some keyword occurs in text.lower()
KeywordGroups == {"contract", "policy", "decree", "regulation"}

_infer_document_type(text) ==
    IF "contract" \in text THEN "CONTRACT"
    ELSE IF "policy" \in text THEN "POLICY"
    ELSE IF "decree" \in text THEN "DECREE"
    ELSE IF "regulation" \in text THEN "REGULATION"
    ELSE "LAW"

\* the defaults _parse_simple_response starts from
DefaultAnalysis ==
    [document_type |-> "LAW",
     title |-> Str("Legal Document", 14),
     authority |-> Str("Legal Authority", 15),
     scope |-> <<"general">>,
     key_topics |-> <<"general terms">>]

\* content labels: TYPE -> the run of capitals after "TYPE:", TITLE and
\* AUTHORITY -> the length of the stripped capture, SCOPE and TOPICS -> the
\* comma-separated pieces after strip ("" for a blank piece)
_parse_simple_response(response, text_sample) ==
    LET c == response.content
        d == DefaultAnalysis
        r == [document_type |->
                  IF Has(c, "TYPE") /\ c["TYPE"] \in RecognizedTypes
                  THEN c["TYPE"] ELSE d.document_type,
              title |->
                  IF Has(c, "TITLE") /\ c["TITLE"] > 5
                  THEN Str("parsed", Min(c["TITLE"], 200)) ELSE d.title,
              authority |->
                  IF Has(c, "AUTHORITY") /\ c["AUTHORITY"] > 2
                  THEN Str("parsed", Min(c["AUTHORITY"], 100)) ELSE d.authority,
              scope |->
                  IF Has(c, "SCOPE") /\ Pieces(c["SCOPE"]) # <<>>
                  THEN Take(Pieces(c["SCOPE"]), 5) ELSE d.scope,
              key_topics |->
                  IF Has(c, "TOPICS") /\ Pieces(c["TOPICS"]) # <<>>
                  THEN Take(Pieces(c["TOPICS"]), 8) ELSE d.key_topics]
    IN  IF r.document_type = "LAW"
        THEN [r EXCEPT !.document_type = _infer_document_type(text_sample)]
        ELSE r

\* DocumentMetadata built from an analysis dictionary; DocumentType(s) raises
\* ValueError for a string that is no member, and LAW is used then
_create_safe_metadata(a) ==
    [document_type |->
         IF a.document_type \in DocumentType THEN a.document_type ELSE "LAW",
     title |-> Str(a.title.lit, Min(a.title.len, 200)),
     authority |->
         IF a.authority.len > 0
         THEN Str(a.authority.lit, Min(a.authority.len, 100)) ELSE NoneStr,
     scope |-> Take(a.scope, 5),
     key_topics |-> Take(a.key_topics, 8)]

NoAnalysis ==
    [document_type |-> "", title |-> NoneStr, authority |-> NoneStr,
     scope |-> <<>>, key_topics |-> <<>>]

(* Replies of the backend to the classification prompt *)

TypeTokens == RecognizedTypes \cup {"FRAMEWORK", "UNKNOWN", "L"}

ScopeReplies ==
    {<<"">>, <<"labor">>, <<"labor", "", "wages">>,
     <<"labor", "wages", "leave", "safety", "contracts", "disputes">>}

TopicReplies ==
    {<<"">>, <<"leave">>, <<"wages", "", "leave">>,
     <<"t1", "t2", "t3", "t4", "t5", "t6", "t7", "t8", "t9">>}

ProfileReplies ==
    {NoContent}
    \cup {("TYPE" :> t) : t \in TypeTokens}
    \cup {("TITLE" :> n) : n \in {0, 5, 6, 250}}
    \cup {("AUTHORITY" :> n) : n \in {0, 2, 3, 150}}
    \cup {("SCOPE" :> s) : s \in ScopeReplies}
    \cup {("TOPICS" :> s) : s \in TopicReplies}
    \cup {("TYPE" :> "DECREE") @@ ("TITLE" :> 30) @@ ("AUTHORITY" :> 20)
          @@ ("SCOPE" :> <<"labor", "wages">>) @@ ("TOPICS" :> <<"leave">>)}

ClassifyOutcomes ==
    {Outcome("ok", "", 120, c) : c \in ProfileReplies}
    \cup {Outcome("ok", "", 0, NoContent),
          Outcome("http", "", 60, ("TYPE" :> "CONTRACT") @@ ("TITLE" :> 30)),
          Outcome("timeout", "", 0, NoContent),
          Outcome("conn", "", 41, NoContent)}

(* Replies of the backend in the retry scenario: lengths around the limits *)

RetryOutcomes ==
    {Outcome("ok", "", n, NoContent) : n \in {0, 20, 50, 51}}
    \cup {Outcome("ok", "Error:", 60, NoContent)}
    \cup {Outcome("http", "", n, NoContent) : n \in {10, 40}}
    \cup {Outcome("timeout", "", 0, NoContent)}
    \cup {Outcome("conn", "", n, NoContent) : n \in {10, 41}}

----------------------------------------------------------------------------
(* Compliance evaluation: check_policy_compliance *)

\* str.upper() on the words the replies use
Upper(w) ==
    CASE w = "aligned" -> "ALIGNED"
      [] w = "moderate" -> "MODERATE"
      [] w = "unaligned" -> "UNALIGNED"
      [] w = "high" -> "HIGH"
      [] w = "medium" -> "MEDIUM"
      [] w = "low" -> "LOW"
      [] w = "present" -> "PRESENT"
      [] w = "partial" -> "PARTIAL"
      [] w = "missing" -> "MISSING"
      [] OTHER -> w

\* a safe result that takes a side
SafeResultUnaligned(requirement) ==
    [status |-> "UNALIGNED",
     feedback |-> <<"Analysis of", requirement.item, "completed">>,
     comments |-> <<"Review of", requirement.item, "conducted">>,
     suggested_amendments |-> <<"Consider updating", requirement.item, "as needed">>,
     priority |-> "HIGH",
     compliance_percentage |-> 0]

\* the same dictionary in ollama_client.py and compliance_checker.py
_create_safe_compliance_result(requirement) ==
    [status |-> "MODERATE",
     feedback |-> <<"Analysis of", requirement.item, "completed">>,
     comments |-> <<"Review of", requirement.item, "conducted">>,
     suggested_amendments |-> <<"Consider updating", requirement.item, "as needed">>,
     priority |-> "MEDIUM",
     compliance_percentage |-> 60]

\* _parse_compliance_response taking the status word as it is written
ParseComplianceAnyStatus(response, requirement) ==
    LET c == response.content
        d == _create_safe_compliance_result(requirement)
    IN  [status |-> IF Has(c, "STATUS") THEN c["STATUS"] ELSE d.status,
         feedback |-> IF Has(c, "FEEDBACK") THEN <<c["FEEDBACK"]>> ELSE d.feedback,
         comments |-> IF Has(c, "COMMENTS") THEN <<c["COMMENTS"]>> ELSE d.comments,
         suggested_amendments |->
             IF Has(c, "AMENDMENTS") THEN <<c["AMENDMENTS"]>>
             ELSE d.suggested_amendments,
         priority |->
             IF Has(c, "PRIORITY") /\ Upper(c["PRIORITY"]) \in {"HIGH", "MEDIUM", "LOW"}
             THEN Upper(c["PRIORITY"]) ELSE d.priority,
         compliance_percentage |->
             IF Has(c, "PERCENTAGE") /\ c["PERCENTAGE"] >= 0 /\ c["PERCENTAGE"] <= 100
             THEN c["PERCENTAGE"] ELSE d.compliance_percentage]

\* content labels: STATUS and PRIORITY -> the word after the label as written,
\* FEEDBACK, COMMENTS and AMENDMENTS -> the stripped capture, PERCENTAGE -> the
\* number the digits denote
_parse_compliance_response(response, requirement) ==
    LET c == response.content
        d == _create_safe_compliance_result(requirement)
    IN  [status |->
             IF Has(c, "STATUS")
                /\ Upper(c["STATUS"]) \in {"ALIGNED", "MODERATE", "UNALIGNED"}
             THEN Upper(c["STATUS"]) ELSE d.status,
         feedback |-> IF Has(c, "FEEDBACK") THEN <<c["FEEDBACK"]>> ELSE d.feedback,
         comments |-> IF Has(c, "COMMENTS") THEN <<c["COMMENTS"]>> ELSE d.comments,
         suggested_amendments |->
             IF Has(c, "AMENDMENTS") THEN <<c["AMENDMENTS"]>>
             ELSE d.suggested_amendments,
         priority |->
             IF Has(c, "PRIORITY") /\ Upper(c["PRIORITY"]) \in {"HIGH", "MEDIUM", "LOW"}
             THEN Upper(c["PRIORITY"]) ELSE d.priority,
         compliance_percentage |->
             IF Has(c, "PERCENTAGE") /\ c["PERCENTAGE"] >= 0 /\ c["PERCENTAGE"] <= 100
             THEN c["PERCENTAGE"] ELSE d.compliance_percentage]

\* how the call of one requirement ended: "answered" when the returned text is
\* the body of a 200 response, "lost" when every attempt timed out or raised,
\* "rejected" otherwise
Fate(l) ==
    IF l # <<>> /\ l[Len(l)].accepted /\ l[Len(l)].outcome.kind = "ok"
    THEN "answered"
    ELSE IF \A k \in 1..Len(l) : l[k].outcome.kind \in {"timeout", "conn"}
    THEN "lost"
    ELSE "rejected"

Items == {"Leave Entitlements", "Health and Safety"}

RequirementLists ==
    UNION {[1..n -> {[item |-> i] : i \in Items}] : n \in 0..MaxReqs}

VerdictReplies ==
    {NoContent,
     ("STATUS" :> "ALIGNED") @@ ("FEEDBACK" :> "clause found")
         @@ ("COMMENTS" :> "section 4") @@ ("AMENDMENTS" :> "none")
         @@ ("PRIORITY" :> "HIGH") @@ ("PERCENTAGE" :> 90),
     ("STATUS" :> "unaligned") @@ ("PRIORITY" :> "low"),
     ("STATUS" :> "PARTIAL") @@ ("FEEDBACK" :> ""),
     ("STATUS" :> "MODERATE") @@ ("PERCENTAGE" :> 150)}

BatchOutcomes ==
    {Outcome("ok", "", 120, c) : c \in VerdictReplies}
    \cup {Outcome("ok", "", 0, NoContent),
          Outcome("http", "", 60, ("STATUS" :> "ALIGNED") @@ ("PERCENTAGE" :> 100)),
          Outcome("timeout", "", 0, NoContent),
          Outcome("conn", "", 41, NoContent)}

----------------------------------------------------------------------------
(* Criteria coverage: analyze_criteria_coverage *)

\* the ids of config.POLICY_ANALYSIS_CRITERIA, in order
CriteriaIds ==
    <<"organizational_design", "talent_acquisition", "learning_development",
      "performance_management", "talent_management", "compensation_benefits",
      "hr_operations", "regulatory_compliance", "policy_quality">>

criteria_framework == [i \in 1..NumCriteria |-> [id |-> CriteriaIds[i]]]

_create_fallback_criteria_analysis(criteria) ==
    [criteria_id |-> criteria.id,
     status |-> "MISSING",
     confidence |-> "LOW",
     coverage_percentage |-> 0,
     quality_assessment |-> <<"Analysis of", criteria.id, "could not be completed">>,
     implementation_priority |-> "HIGH"]

\* content label JSON -> [valid, obj]: the text between the first "{" and the
\* last "}", whether json.loads accepts it, and the keys of the object
_parse_criteria_analysis(response, criteria) ==
    LET c == response.content
    IN  IF Has(c, "JSON") /\ c["JSON"].valid
        THEN LET a == c["JSON"].obj
                 status_str ==
                     IF Has(a, "status") /\ Upper(a["status"]) \in {"PRESENT", "PARTIAL", "MISSING"}
                     THEN Upper(a["status"]) ELSE "MISSING"
                 confidence_str ==
                     IF ~Has(a, "confidence") THEN "MEDIUM"
                     ELSE IF Upper(a["confidence"]) \in {"HIGH", "MEDIUM", "LOW"}
                     THEN Upper(a["confidence"]) ELSE "MEDIUM"
                 coverage ==
                     IF ~Has(a, "coverage_percentage") THEN 0
                     ELSE IF a["coverage_percentage"] < 0 \/ a["coverage_percentage"] > 100
                     THEN (IF status_str = "PARTIAL" THEN 50
                           ELSE IF status_str = "MISSING" THEN 0 ELSE 80)
                     ELSE a["coverage_percentage"]
             IN  [criteria_id |-> criteria.id,
                  status |-> status_str,
                  confidence |-> confidence_str,
                  coverage_percentage |-> coverage,
                  quality_assessment |->
                      IF Has(a, "quality_assessment") THEN <<a["quality_assessment"]>>
                      ELSE <<"Assessment completed">>,
                  implementation_priority |->
                      IF Has(a, "implementation_priority") THEN a["implementation_priority"]
                      ELSE "MEDIUM"]
        ELSE _create_fallback_criteria_analysis(criteria)

NoCriteriaResult ==
    [criteria_id |-> "", status |-> "", confidence |-> "", coverage_percentage |-> 0,
     quality_assessment |-> <<>>, implementation_priority |-> ""]

Json(v, o) == ("JSON" :> [valid |-> v, obj |-> o])

FullCriteriaObject ==
    ("status" :> "PRESENT") @@ ("confidence" :> "HIGH") @@ ("coverage_percentage" :> 90)
    @@ ("quality_assessment" :> "clear provisions") @@ ("implementation_priority" :> "LOW")

CriteriaReplies ==
    {NoContent,
     Json(FALSE, NoContent),
     Json(TRUE, FullCriteriaObject),
     Json(TRUE, ("status" :> "partial") @@ ("coverage_percentage" :> 150)),
     Json(TRUE, ("error" :> "model not found"))}

CriteriaOutcomes ==
    {Outcome("ok", "", 300, c) : c \in CriteriaReplies}
    \cup {Outcome("ok", "", 50, Json(TRUE, FullCriteriaObject)),
          Outcome("http", "", 10, NoContent),
          Outcome("http", "", 40, Json(TRUE, ("error" :> "model not found"))),
          Outcome("http", "", 120, Json(TRUE, FullCriteriaObject)),
          Outcome("timeout", "", 0, NoContent),
          Outcome("conn", "", 10, NoContent),
          Outcome("conn", "", 41, NoContent)}

NewTask ==
    [st |-> "waiting", attempt |-> 0, requests |-> 0, failedOnly |-> TRUE,
     result |-> NoCriteriaResult]

----------------------------------------------------------------------------
(* Requirement extraction: extract_requirements_intelligently *)

\* The closed category set of a requirement (spec.md, Requirement.category)
Categories ==
    {"employment_terms", "compensation_benefits", "working_conditions",
     "termination_conditions", "confidentiality_non_compete",
     "intellectual_property", "dispute_resolution", "compliance_regulatory",
     "health_safety", "leave_policies", "other"}

\* x in y for lower-cased strings kept as their sequences of words: x occurs in
\* y as a run of consecutive words
Contains(y, x) ==
    \E k \in 0..(Len(y) - Len(x)) : SubSeq(y, k + 1, k + Len(x)) = x

Requirement(ch, it, cat) == [chapter |-> ch, item |-> it, category |-> cat]

\* essential_requirements without the Leave Provisions entry
EssentialWithoutLeave ==
    <<Requirement("Employment Definition", <<"employment", "relationship">>,
                  "employment_terms"),
      Requirement("Compensation Framework", <<"salary", "and", "payment", "terms">>,
                  "compensation_benefits"),
      Requirement("Working Conditions", <<"working", "hours", "and", "schedule">>,
                  "working_conditions"),
      Requirement("Benefits and Entitlements", <<"statutory", "benefits">>,
                  "compensation_benefits"),
      Requirement("Termination Framework", <<"termination", "procedures">>,
                  "termination_conditions"),
      Requirement("Confidentiality", <<"confidentiality", "obligations">>,
                  "confidentiality_non_compete"),
      Requirement("Workplace Safety", <<"health", "and", "safety">>,
                  "health_safety"),
      Requirement("Dispute Resolution", <<"dispute", "procedures">>,
                  "dispute_resolution"),
      Requirement("Legal Compliance", <<"general", "compliance">>,
                  "compliance_regulatory")>>

\* the list _generate_comprehensive_fallback_requirements of ollama_client.py
\* starts from; item is kept lower-cased, the only form the code tests it in
essential_requirements ==
    <<Requirement("Employment Definition", <<"employment", "relationship">>,
                  "employment_terms"),
      Requirement("Compensation Framework", <<"salary", "and", "payment", "terms">>,
                  "compensation_benefits"),
      Requirement("Working Conditions", <<"working", "hours", "and", "schedule">>,
                  "working_conditions"),
      Requirement("Benefits and Entitlements", <<"statutory", "benefits">>,
                  "compensation_benefits"),
      Requirement("Leave Provisions", <<"leave", "entitlements">>,
                  "leave_policies"),
      Requirement("Termination Framework", <<"termination", "procedures">>,
                  "termination_conditions"),
      Requirement("Confidentiality", <<"confidentiality", "obligations">>,
                  "confidentiality_non_compete"),
      Requirement("Workplace Safety", <<"health", "and", "safety">>,
                  "health_safety"),
      Requirement("Dispute Resolution", <<"dispute", "procedures">>,
                  "dispute_resolution"),
      Requirement("Legal Compliance", <<"general", "compliance">>,
                  "compliance_regulatory")>>

\* the loop over law_topics[:3]: a topic no item contains adds
\* "<Topic> Compliance" to the list, which later topics are tested against
RECURSIVE AddTopics(_, _)
AddTopics(reqs, topics) ==
    IF topics = <<>> THEN reqs
    ELSE LET topic == Head(topics)
             covered == \E k \in 1..Len(reqs) : Contains(reqs[k].item, topic)
             added == Requirement("Additional Requirements",
                                  topic \o <<"compliance">>,
                                  "compliance_regulatory")
         IN  AddTopics(IF covered THEN reqs ELSE Append(reqs, added), Tail(topics))

\* the fallback requirements with every topic taken and no cut of the list
FallbackRequirementsUncut(law_analysis) ==
    AddTopics(essential_requirements, law_analysis.key_topics)

\* IntelligentAnalyzer._generate_comprehensive_fallback_requirements
_generate_comprehensive_fallback_requirements(law_analysis) ==
    Take(AddTopics(essential_requirements, Take(law_analysis.key_topics, 3)), 12)

\* extract_requirements_intelligently returns the fallback requirements
extract_requirements_intelligently(law_analysis) ==
    _generate_comprehensive_fallback_requirements(law_analysis)

\* IntelligentComplianceEngine._generate_comprehensive_fallback_requirements:
\* ten fixed requirements
EngineFallbackRequirements ==
    <<Requirement("Employment Terms", <<"employment", "definition">>,
                  "employment_terms"),
      Requirement("Compensation", <<"salary", "specification">>,
                  "compensation_benefits"),
      Requirement("Working Hours", <<"work", "schedule">>,
                  "working_conditions"),
      Requirement("Benefits", <<"statutory", "benefits">>,
                  "compensation_benefits"),
      Requirement("Leave Policies", <<"leave", "entitlements">>,
                  "leave_policies"),
      Requirement("Termination", <<"termination", "procedures">>,
                  "termination_conditions"),
      Requirement("Confidentiality", <<"confidentiality", "clauses">>,
                  "confidentiality_non_compete"),
      Requirement("Safety", <<"health", "and", "safety">>,
                  "health_safety"),
      Requirement("Disputes", <<"dispute", "resolution">>,
                  "dispute_resolution"),
      Requirement("Compliance", <<"legal", "compliance">>,
                  "compliance_regulatory")>>

\* the list handed to _check_compliance_safely
_extract_requirements_safely(law_analysis) ==
    LET requirements_ == extract_requirements_intelligently(law_analysis)
    IN  IF Len(requirements_) > 0 THEN requirements_
        ELSE EngineFallbackRequirements

(* key_topics of the law profile: 1 to MaxTopics non-empty strings *)

Topics ==
    {<<"leave">>, <<"health", "and", "safety">>, <<"wages">>, <<"training">>,
     <<"general", "terms">>, <<"overtime">>}

TopicLists == UNION {[1..n -> Topics] : n \in 1..MaxTopics}

----------------------------------------------------------------------------
(* Checklist items: _create_safe_policy_items *)

\* the members of PolicyStatus the engine uses
PolicyStatus == {"ALIGNED", "MODERATE", "UNALIGNED"}

\* a category string of LONGLEN characters and its first 50 characters
LongCategory == "statutory_reporting_and_record_keeping_duties_of_the_employer"
LongCategoryCut == "statutory_reporting_and_record_keeping_duties_of_t"

\* value[:max_length]
Cut(value, max_length) ==
    IF value = LongCategory /\ max_length < LongCategoryLen THEN LongCategoryCut
    ELSE value

\* str(value).upper() of a status value
UpperStatus(value) ==
    CASE value = "aligned" -> "ALIGNED"
      [] value = "moderate" -> "MODERATE"
      [] value = "unaligned" -> "UNALIGNED"
      [] value = "partial" -> "PARTIAL"
      [] OTHER -> value

\* the f-strings of _create_safe_compliance_result for the items of the model
AnalysisOf(item) ==
    IF item = "Leave Entitlements" THEN "Analysis of Leave Entitlements completed"
    ELSE "Analysis of Health and Safety completed"

ReviewOf(item) ==
    IF item = "Leave Entitlements" THEN "Review of Leave Entitlements conducted"
    ELSE "Review of Health and Safety conducted"

ConsiderUpdating(item) ==
    IF item = "Leave Entitlements"
    THEN "Consider updating Leave Entitlements as needed"
    ELSE "Consider updating Health and Safety as needed"

\* IntelligentComplianceEngine._create_safe_compliance_result, as a dictionary
SafeResultDict(req) ==
    ("status" :> "MODERATE")
    @@ ("feedback" :> AnalysisOf(req["item"]))
    @@ ("comments" :> ReviewOf(req["item"]))
    @@ ("suggested_amendments" :> ConsiderUpdating(req["item"]))
    @@ ("priority" :> "MEDIUM")

\* safe_text(d.get(key), default, max_length) for string values: a missing
\* key, None and "" give the default
safe_text(d, key, default, max_length) ==
    IF Has(d, key) /\ d[key] # "" THEN Cut(d[key], max_length) ELSE default

PolicyItem(ch, it, rq, st, fb, cm, am, sr, cat) ==
    [chapter |-> ch, item |-> it, requirement |-> rq, status |-> st,
     feedback |-> fb, comments |-> cm, suggested_amendments |-> am,
     source_reference |-> sr, category |-> cat]

\* the body of the loop of _create_safe_policy_items for one pair; an entry of
\* compliance_results is [isdict, d]: whether it is a dict, and the dict
SafePolicyItem(req, entry) ==
    LET result == IF entry.isdict THEN entry.d ELSE SafeResultDict(req)
        upper == IF Has(result, "status") THEN UpperStatus(result["status"])
                 ELSE "MODERATE"
        status_str == IF upper \in PolicyStatus THEN upper ELSE "MODERATE"
    IN  PolicyItem(safe_text(req, "chapter", "General Requirements", 100),
                   safe_text(req, "item", "Unknown Requirement", 150),
                   safe_text(req, "requirement", "Requirement not specified", 300),
                   status_str,
                   safe_text(result, "feedback", "Analysis completed", 300),
                   safe_text(result, "comments", "Review completed", 300),
                   safe_text(result, "suggested_amendments", "Review recommended", 300),
                   safe_text(req, "source_reference", "Legal Analysis", 100),
                   safe_text(req, "category", "other", 50))

\* the item appended when the loop produced none
NoItemsProcessed ==
    PolicyItem("System Error", "No Items Processed",
               "System could not process any requirements", "MODERATE",
               "System error during processing", "Manual analysis required",
               "Professional legal review needed", "System Error", "error")

\* zip(requirements, compliance_results) stops at the shorter list
_create_safe_policy_items(reqs, compliance_results) ==
    LET n == Min(Len(reqs), Len(compliance_results))
        policy_items_ == [i \in 1..n |-> SafePolicyItem(reqs[i], compliance_results[i])]
    IN  IF n = 0 THEN <<NoItemsProcessed>> ELSE policy_items_

(* Inputs of _create_safe_policy_items *)

ItemRequirements ==
    {("item" :> "Leave Entitlements") @@ ("category" :> "leave_policies")
         @@ ("chapter" :> "Leave Provisions"),
     ("item" :> "Health and Safety") @@ ("category" :> "salary"),
     ("item" :> "Leave Entitlements"),
     ("item" :> "Health and Safety") @@ ("category" :> ""),
     ("item" :> "Leave Entitlements") @@ ("category" :> LongCategory)}

ItemRequirementLists == UNION {[1..n -> ItemRequirements] : n \in 0..MaxReqs}

Verdict(d) == [isdict |-> TRUE, d |-> d]

\* an entry that is no dict: None, an exception object
NotAVerdict == [isdict |-> FALSE, d |-> NoContent]

VerdictEntries ==
    {NotAVerdict,
     Verdict(("status" :> "ALIGNED") @@ ("feedback" :> "clause found")
             @@ ("comments" :> "section 4") @@ ("suggested_amendments" :> "none")),
     Verdict(("status" :> "unaligned") @@ ("feedback" :> "")),
     Verdict(("status" :> "PARTIAL")),
     Verdict(("feedback" :> "clause found"))}

VerdictLists == UNION {[1..n -> VerdictEntries] : n \in 0..(MaxReqs + 1)}

----------------------------------------------------------------------------
(* Assessment and statistics *)

\* len([item for item in items if item.status == st])
Count(items, st) == Cardinality({i \in 1..Len(items) : items[i].status = st})

\* a float n / total * 100, kept as the fraction num / den; the comparisons of
\* the code with 40, 60, 70 and 80 give the same result on the float and on the
\* fraction for every total up to 400
Percent(n, total) ==
    IF total > 0 THEN [num |-> n * 100, den |-> total] ELSE [num |-> 0, den |-> 1]

\* score < bound
Below(score, bound) == score.num < bound * score.den

_create_safe_assessment ==
    [overall_assessment |->
         [text |-> "Document analysis completed", score |-> Percent(0, 0),
          unaligned |-> 0],
     key_strengths |-> <<"Analysis attempted">>,
     critical_gaps |-> [text |-> "Comprehensive review needed", unaligned |-> 0],
     strategic_recommendations |-> <<"Professional legal review recommended">>,
     risk_assessment |-> "Risk assessment completed",
     additional_considerations |-> <<"Expert consultation recommended">>,
     compliance_maturity |-> "DEVELOPING",
     legal_exposure |-> "Legal exposure assessment needed"]

\* IntelligentAnalyzer.generate_overall_assessment: no reasoning call is made,
\* the assessment is computed from the counts
generate_overall_assessment(checklist_items) ==
    LET aligned_count == Count(checklist_items, "ALIGNED")
        unaligned_count == Count(checklist_items, "UNALIGNED")
        total_count == Len(checklist_items)
        compliance_score == Percent(aligned_count, total_count)
    IN  IF total_count = 0 THEN _create_safe_assessment
        ELSE [overall_assessment |->
                  [text |-> "Document compliance analysis shows",
                   score |-> compliance_score, unaligned |-> unaligned_count],
              key_strengths |->
                  IF aligned_count > 0
                  THEN <<"Document structure exists", "Basic provisions present">>
                  ELSE <<"Document requires comprehensive review">>,
              critical_gaps |->
                  [text |-> "requirements not adequately addressed",
                   unaligned |-> unaligned_count],
              strategic_recommendations |->
                  <<"Conduct comprehensive legal review",
                    "Address all unaligned requirements",
                    "Implement recommended amendments",
                    "Establish compliance monitoring">>,
              risk_assessment |->
                  IF Below(compliance_score, 60) THEN "High"
                  ELSE IF Below(compliance_score, 80) THEN "Moderate" ELSE "Low",
              additional_considerations |->
                  <<"Professional legal consultation recommended",
                    "Regular document updates needed",
                    "Compliance monitoring required">>,
              compliance_maturity |->
                  IF Below(compliance_score, 40) THEN "BASIC"
                  ELSE IF Below(compliance_score, 70) THEN "DEVELOPING"
                  ELSE "ADVANCED",
              legal_exposure |->
                  IF Below(compliance_score, 60) THEN "Significant"
                  ELSE IF Below(compliance_score, 80) THEN "Moderate" ELSE "Limited"]

\* the assessment is a non-empty dictionary, which is returned; nothing in
\* generate_overall_assessment raises, so _create_fallback_assessment is not used
_generate_assessment_safely(policy_items_) ==
    generate_overall_assessment(policy_items_)

\* the counts of one category of category_breakdown
CategoryCounts(items, category) ==
    LET own == SelectSeq(items, LAMBDA it : it.category = category)
    IN  [aligned |-> Count(own, "ALIGNED"),
         moderate |-> Count(own, "MODERATE"),
         unaligned |-> Count(own, "UNALIGNED")]

\* _create_comprehensive_feedback with a total that is one too large
FeedbackTotalOffByOne(items, assessment_) ==
    LET aligned_ == Count(items, "ALIGNED")
        moderate_ == Count(items, "MODERATE")
        unaligned_ == Count(items, "UNALIGNED")
        total == Len(items) + 1
    IN  [statistics |->
             [aligned |-> aligned_, moderate |-> moderate_, unaligned |-> unaligned_,
              total |-> total,
              alignment_percentage |-> Percent(aligned_, total),
              moderate_percentage |-> Percent(moderate_, total),
              unaligned_percentage |-> Percent(unaligned_, total)],
         category_breakdown |->
             [c \in {items[i].category : i \in 1..Len(items)} |-> CategoryCounts(items, c)],
         assessment |-> assessment_.overall_assessment,
         key_strengths |-> assessment_.key_strengths,
         critical_gaps |-> assessment_.critical_gaps,
         compliance_maturity |-> assessment_.compliance_maturity]

\* IntelligentComplianceEngine._create_comprehensive_feedback
_create_comprehensive_feedback(items, assessment_) ==
    LET aligned_ == Count(items, "ALIGNED")
        moderate_ == Count(items, "MODERATE")
        unaligned_ == Count(items, "UNALIGNED")
        total == Len(items)
    IN  [statistics |->
             [aligned |-> aligned_, moderate |-> moderate_, unaligned |-> unaligned_,
              total |-> total,
              alignment_percentage |-> Percent(aligned_, total),
              moderate_percentage |-> Percent(moderate_, total),
              unaligned_percentage |-> Percent(unaligned_, total)],
         category_breakdown |->
             [c \in {items[i].category : i \in 1..Len(items)} |-> CategoryCounts(items, c)],
         assessment |-> assessment_.overall_assessment,
         key_strengths |-> assessment_.key_strengths,
         critical_gaps |-> assessment_.critical_gaps,
         compliance_maturity |-> assessment_.compliance_maturity]

\* PolicyChecklist(items=..., overall_feedback=..., recommendations=...)
PolicyChecklist(items, overall_feedback, recommendations) ==
    [items |-> items, overall_feedback |-> overall_feedback,
     recommendations |-> recommendations]

\* IntelligentComplianceEngine._create_fallback_checklist
_create_fallback_checklist ==
    [items |->
         <<PolicyItem("System Analysis", "Analysis Status",
                      "Automated analysis attempted", "MODERATE",
                      "System completed analysis with limitations",
                      "Automated analysis encountered challenges",
                      "Professional legal review recommended",
                      "System Analysis", "analysis")>>,
     overall_feedback |->
         [statistics |->
              [aligned |-> 0, moderate |-> 1, unaligned |-> 0, total |-> 1,
               alignment_percentage |-> [num |-> 0, den |-> 1],
               moderate_percentage |-> [num |-> 100, den |-> 1],
               unaligned_percentage |-> [num |-> 0, den |-> 1]],
          assessment |->
              [text |-> "Analysis completed with system limitations",
               score |-> Percent(0, 0), unaligned |-> 0],
          key_strengths |-> <<"Analysis attempted">>,
          critical_gaps |-> [text |-> "Professional review needed", unaligned |-> 0],
          compliance_maturity |-> "DEVELOPING"],
     recommendations |->
         <<"Professional legal review recommended",
           "Manual analysis of documents advised",
           "Expert consultation suggested">>]

NoChecklist ==
    [items |-> <<>>, overall_feedback |-> [statistics |-> [total |-> 0]],
     recommendations |-> <<>>]

NoAssessment == [compliance_maturity |-> ""]

\* a checklist of a aligned, m moderate and u unaligned items
StatusItems(a, m, u) ==
    [i \in 1..(a + m + u) |->
        PolicyItem("General Requirements", "Leave Entitlements",
                   "Requirement not specified",
                   IF i <= a THEN "ALIGNED" ELSE IF i <= a + m THEN "MODERATE"
                   ELSE "UNALIGNED",
                   "Analysis completed", "Review completed", "Review recommended",
                   "Legal Analysis", "leave_policies")]

\* sizes of the checklists that are assessed
ChecklistSizes == {1, 10, MaxChecklist}

----------------------------------------------------------------------------
(* The analysis run: rewards_analysis_pipeline *)

\* An uploaded PDF: chars is the length of the text extract_text gets out of
\* its pages, raises whether pdfplumber fails on it, msg the length of the
\* message of that exception, path the length of the temporary file's name
Pdf(chars, raises, msg) ==
    [chars |-> chars, raises |-> raises, msg |-> msg, path |-> TempPathLen]

\* DocumentProcessor.extract_text: the length of the string returned. A text
\* shorter than 100 characters is replaced by the extraction report, which
\* holds the file name and the text (the few characters of the report that vary
\* with the counts it prints are left out)
extract_text(pdf) ==
    IF pdf.raises
    THEN ExtractionErrorLen + CriticalErrorLen + pdf.path + pdf.msg
    ELSE IF pdf.chars < SmallTextLen
    THEN ExtractionReportLen + pdf.path + pdf.chars
    ELSE pdf.chars

\* DocumentProcessor.intelligent_extract_text: extracted_text is raw_text in
\* every return but that of the handler; the content analysis is made for a
\* raw_text of 100 characters or more
intelligent_extract_text(pdf) ==
    [extracted_text |-> extract_text(pdf),
     analysed |-> extract_text(pdf) >= SmallTextLen]

\* get_analysis_status: the status reported for the files of the task
get_analysis_status(fs) ==
    IF "report" \in fs THEN "completed"
    ELSE IF "error" \in fs THEN "error"
    ELSE "processing"

PdfInputs ==
    {Pdf(n, FALSE, 0) : n \in {0, 50, 99, 100, 199, 200, 5000}}
    \cup {Pdf(0, TRUE, m) : m \in {10, 150}}

\* the reference documents followed by the target document
PdfLists == UNION {[1..(n + 1) -> PdfInputs] : n \in 1..MaxRefs}

\* the content of the error file: "Analysis failed: " followed by str(e)
ErrorFile(e) == [pfx |-> "Analysis failed: ", kind |-> e.kind, doc |-> e.doc]

\* no error file
NoErrorFile == [pfx |-> "", kind |-> "", doc |-> 0]

\* the reply of get_analysis_status for the files of the task, the content of
\* the error file and current_phase of the progress file, when the error
\* status comes without any text
StatusReplyBlankError(fs, error_file, current_phase) ==
    IF "report" \in fs
    THEN [status |-> "completed",
          message |-> "Intelligent policy analysis completed successfully",
          error |-> NoErrorFile, download_ready |-> TRUE]
    ELSE IF "error" \in fs
    THEN [status |-> "error", message |-> "",
          error |-> NoErrorFile, download_ready |-> FALSE]
    ELSE IF "progress" \in fs
    THEN [status |-> "processing", message |-> current_phase,
          error |-> NoErrorFile, download_ready |-> FALSE]
    ELSE [status |-> "processing",
          message |-> "Intelligent analysis in progress...",
          error |-> NoErrorFile, download_ready |-> FALSE]

\* get_analysis_status: the reply for the files of the task, the content of the
\* error file and current_phase of the progress file
StatusReply(fs, error_file, current_phase) ==
    IF "report" \in fs
    THEN [status |-> "completed",
          message |-> "Intelligent policy analysis completed successfully",
          error |-> NoErrorFile, download_ready |-> TRUE]
    ELSE IF "error" \in fs
    THEN [status |-> "error", message |-> "Analysis failed",
          error |-> error_file, download_ready |-> FALSE]
    ELSE IF "progress" \in fs
    THEN [status |-> "processing", message |-> current_phase,
          error |-> NoErrorFile, download_ready |-> FALSE]
    ELSE [status |-> "processing",
          message |-> "Intelligent analysis in progress...",
          error |-> NoErrorFile, download_ready |-> FALSE]

\* no status query has been answered
NoReply ==
    [status |-> "", message |-> "", error |-> NoErrorFile, download_ready |-> FALSE]

----------------------------------------------------------------------------
(* The prompt of a request: generate and _generate_completion *)

\* a prompt is the range of the characters of the caller's prompt it holds,
\* followed by a marker
Prompt(first, last, marker) == [first |-> first, last |-> last, marker |-> marker]

NoPrompt == Prompt(0, 0, "")

TruncationMarker(cl) ==
    IF cl = "ollama" THEN "...[truncated]" ELSE "...[content truncated for analysis]"

\* the prompt is sent whole, whatever its length
PayloadPromptWhole(cl, n) == Prompt(1, n, "")

\* payload["prompt"] for a prompt of n characters:
\* prompt[:MAX_PROMPT_LENGTH] + marker when len(prompt) > MAX_PROMPT_LENGTH
PayloadPrompt(cl, n) ==
    IF n > MAX_PROMPT_LENGTH
    THEN Prompt(1, MAX_PROMPT_LENGTH, TruncationMarker(cl))
    ELSE Prompt(1, n, "")

\* lengths of the prompts handed to the clients
PromptLengths ==
    {0, 1, MAX_PROMPT_LENGTH - 1, MAX_PROMPT_LENGTH, MAX_PROMPT_LENGTH + 1,
     2 * MAX_PROMPT_LENGTH}

----------------------------------------------------------------------------
(* Start of the clients: lifespan, IntelligentComplianceEngine.__init__ *)

\* policy_analyzer is the IntelligentPolicyAnalyzer of main.py, ollama the
\* IntelligentAnalyzer of the engine
Clients == {"policy", "ollama"}

\* a generate call on a client: what it found and what became of it; with
\* self.session None, self.session.post raises AttributeError and the handler
\* of generate returns "Connection Error: ..."
Served(c, open, checked) ==
    [client |-> c, session |-> open, checked |-> checked,
     result |-> IF open THEN "posted" ELSE "Connection Error"]

----------------------------------------------------------------------------
(* The comparison context: _determine_comparison_context *)

LawTypes == {"LAW", "REGULATION", "DECREE"}

ContractTypes == {"CONTRACT", "POLICY", "AGREEMENT"}

_determine_comparison_context(doc1_type, doc2_type) ==
    IF doc1_type \in LawTypes /\ doc2_type \in ContractTypes
    THEN [reference_doc |-> "doc1", target_doc |-> "doc2",
          analysis_type |-> "compliance_check",
          law_doc |-> "doc1", contract_doc |-> "doc2"]
    ELSE IF doc2_type \in LawTypes /\ doc1_type \in ContractTypes
    THEN [reference_doc |-> "doc2", target_doc |-> "doc1",
          analysis_type |-> "compliance_check",
          law_doc |-> "doc2", contract_doc |-> "doc1"]
    ELSE [reference_doc |-> "doc1", target_doc |-> "doc2",
          analysis_type |-> "legal_compliance",
          law_doc |-> IF doc1_type \in LawTypes THEN "doc1" ELSE "doc2",
          contract_doc |-> IF doc1_type \in LawTypes THEN "doc2" ELSE "doc1"]

NoComparison ==
    [reference_doc |-> "", target_doc |-> "", analysis_type |-> "",
     law_doc |-> "", contract_doc |-> ""]

----------------------------------------------------------------------------
(* The stages of a run: analyze_documents, generate_intelligent_checklist *)

\* the beginning or the end of a stage; k is the document of a classification
\* or the requirement of an evaluation call, and 0 otherwise
Event(stage, k, edge) == [stage |-> stage, k |-> k, edge |-> edge]

\* the number of events of a stage and an edge in a log
Events(l, stage, edge) ==
    Cardinality({i \in 1..Len(l) : l[i].stage = stage /\ l[i].edge = edge})

\* the replies the backend can give in each scenario
OutcomesOf(sc) ==
    CASE sc = "retry" -> RetryOutcomes
      [] sc = "classify" -> ClassifyOutcomes
      [] sc = "batch" -> BatchOutcomes
      [] OTHER -> CriteriaOutcomes

----------------------------------------------------------------------------
(* Initial states *)

IdleCall ==
    /\ calling = FALSE
    /\ attempt = 0
    /\ requests = 0
    /\ returned = FALSE
    /\ ret = EmptyText
    /\ log = <<>>

NoClassify ==
    /\ docText = {}
    /\ analysis = NoAnalysis
    /\ metadata = NoAnalysis

NoBatch ==
    /\ requirements = <<>>
    /\ results = <<>>
    /\ calls = <<>>

NoCriteria ==
    /\ tasks = <<>>
    /\ doneOrder = <<>>
    /\ critResults = <<>>

NoItems ==
    /\ analysis_context = ""
    /\ policy_items = <<>>
    /\ assessment = NoAssessment
    /\ checklist = NoChecklist

NoError == [kind |-> "", doc |-> 0]

NoPipeline ==
    /\ docs = <<>>
    /\ texts = <<>>
    /\ files = {}
    /\ error_msg = NoError
    /\ performed = {}
    /\ progress_info = ""
    /\ reply = NoReply

NoPromptCall ==
    /\ prompt = 0
    /\ payload = NoPrompt

NoStartup ==
    /\ session = [c \in Clients |-> FALSE]
    /\ model_checked = [c \in Clients |-> FALSE]
    /\ init_task = "none"
    /\ served = {}

NoRun == stage_log = <<>>

NoContext ==
    /\ doc_types = <<"", "">>
    /\ comparison = NoComparison

NoEngine == NoPromptCall /\ NoStartup /\ NoRun /\ NoContext

InitRetry ==
    /\ scenario = "retry"
    /\ NoEngine
    /\ client \in {"ollama", "policy"}
    /\ calling = TRUE
    /\ attempt = 0 /\ requests = 0 /\ returned = FALSE
    /\ ret = EmptyText /\ log = <<>>
    /\ phase = "call"
    /\ inflight = 0
    /\ NoClassify /\ NoBatch /\ NoCriteria /\ NoItems /\ NoPipeline

InitClassify ==
    /\ scenario = "classify"
    /\ NoEngine
    /\ client = "ollama"
    /\ calling = TRUE
    /\ attempt = 0 /\ requests = 0 /\ returned = FALSE
    /\ ret = EmptyText /\ log = <<>>
    /\ docText \in SUBSET KeywordGroups
    /\ analysis = NoAnalysis
    /\ metadata = NoAnalysis
    /\ phase = "call"
    /\ inflight = 0
    /\ NoBatch /\ NoCriteria /\ NoItems /\ NoPipeline

InitBatch ==
    /\ scenario = "batch"
    /\ NoEngine
    /\ client = "ollama"
    /\ IdleCall
    /\ requirements \in RequirementLists
    /\ results = <<>>
    /\ calls = <<>>
    /\ phase = "loop"
    /\ inflight = 0
    /\ NoClassify /\ NoCriteria /\ NoItems /\ NoPipeline

InitCriteria ==
    /\ scenario = "criteria"
    /\ NoEngine
    /\ client = "policy"
    /\ IdleCall
    /\ tasks = [i \in 1..NumCriteria |-> NewTask]
    /\ doneOrder = <<>>
    /\ critResults = <<>>
    /\ phase = "gather"
    /\ inflight = 0
    /\ NoClassify /\ NoBatch /\ NoItems /\ NoPipeline

\* _extract_requirements_safely is entered with the law profile
InitRequirements ==
    /\ scenario = "requirements"
    /\ NoEngine
    /\ client = "ollama"
    /\ IdleCall
    /\ \E topics \in TopicLists :
         analysis = [DefaultAnalysis EXCEPT !.key_topics = topics]
    /\ docText = {}
    /\ metadata = NoAnalysis
    /\ phase = "extract"
    /\ inflight = 0
    /\ NoBatch /\ NoCriteria /\ NoItems /\ NoPipeline

\* generate_intelligent_checklist has its requirements and its results; a
\* context without the keys it reads makes it raise KeyError at once
InitItems ==
    /\ scenario = "items"
    /\ NoEngine
    /\ client = "ollama"
    /\ IdleCall
    /\ \/ /\ analysis_context = "complete"
          /\ requirements \in ItemRequirementLists
          /\ results \in VerdictLists
       \/ /\ analysis_context = "incomplete"
          /\ requirements = <<>>
          /\ results = <<>>
    /\ calls = <<>>
    /\ policy_items = <<>>
    /\ assessment = NoAssessment
    /\ checklist = NoChecklist
    /\ phase = "start"
    /\ inflight = 0
    /\ NoClassify /\ NoCriteria /\ NoPipeline

\* _generate_assessment_safely is entered with a checklist
InitAssess ==
    /\ scenario = "assess"
    /\ NoEngine
    /\ client = "ollama"
    /\ IdleCall
    /\ analysis_context = "complete"
    /\ \E total \in ChecklistSizes : \E a \in 0..total : \E u \in 0..(total - a) :
         policy_items = StatusItems(a, total - a - u, u)
    /\ assessment = NoAssessment
    /\ checklist = NoChecklist
    /\ phase = "assess"
    /\ inflight = 0
    /\ NoClassify /\ NoBatch /\ NoCriteria /\ NoPipeline

\* rewards_analysis_pipeline is started on the uploaded files
InitPipeline ==
    /\ scenario = "pipeline"
    /\ NoEngine
    /\ client = "ollama"
    /\ IdleCall
    /\ docs \in PdfLists
    /\ texts = <<>>
    /\ files = {}
    /\ error_msg = NoError
    /\ performed = {}
    /\ progress_info = ""
    /\ reply = NoReply
    /\ phase = "start"
    /\ inflight = 0
    /\ NoClassify /\ NoBatch /\ NoCriteria /\ NoItems

\* a client is handed a prompt
InitPrompt ==
    /\ scenario = "prompt"
    /\ client \in Clients
    /\ IdleCall
    /\ prompt \in PromptLengths
    /\ payload = NoPrompt
    /\ phase = "call"
    /\ inflight = 0
    /\ NoStartup /\ NoRun /\ NoContext
    /\ NoClassify /\ NoBatch /\ NoCriteria /\ NoItems /\ NoPipeline

\* the application starts: lifespan is entered, no client exists
InitStartup ==
    /\ scenario = "startup"
    /\ client = "ollama"
    /\ IdleCall
    /\ NoStartup
    /\ phase = "boot"
    /\ inflight = 0
    /\ NoPromptCall /\ NoRun /\ NoContext
    /\ NoClassify /\ NoBatch /\ NoCriteria /\ NoItems /\ NoPipeline

\* analyze_documents is called on two texts
InitRun ==
    /\ scenario = "run"
    /\ client = "ollama"
    /\ IdleCall
    /\ stage_log = <<>>
    /\ phase = "run_start"
    /\ inflight = 0
    /\ NoPromptCall /\ NoStartup /\ NoContext
    /\ NoClassify /\ NoBatch /\ NoCriteria /\ NoItems /\ NoPipeline

\* _determine_comparison_context is called on two analysis dictionaries
InitContext ==
    /\ scenario = "context"
    /\ client = "ollama"
    /\ IdleCall
    /\ doc_types \in RecognizedTypes \X RecognizedTypes
    /\ comparison = NoComparison
    /\ phase = "context"
    /\ inflight = 0
    /\ NoPromptCall /\ NoStartup /\ NoRun
    /\ NoClassify /\ NoBatch /\ NoCriteria /\ NoItems /\ NoPipeline

Init ==
    \/ InitRetry \/ InitClassify \/ InitBatch \/ InitCriteria
    \/ InitRequirements \/ InitItems \/ InitAssess \/ InitPipeline
    \/ InitPrompt \/ InitStartup \/ InitRun \/ InitContext

----------------------------------------------------------------------------
(* Actions *)

\* generate_with_retry / generate_with_context: one iteration of the loop
RetryAttempt ==
    /\ calling /\ ~returned /\ attempt < max_retries
    /\ \E o \in OutcomesOf(scenario) :
         LET s == RetryStep(client,
                            [attempt |-> attempt, requests |-> requests, log |-> log], o)
         IN  /\ attempt' = s.attempt
             /\ requests' = s.requests
             /\ returned' = s.returned
             /\ ret' = s.ret
             /\ log' = s.log
    /\ UNCHANGED <<engineVars, scenario, client, calling, phase, inflight>>
    /\ UNCHANGED <<classifyVars, batchVars, criteriaVars>>
    /\ UNCHANGED <<checklistVars, pipelineVars>>

\* analyze_document_type_and_structure: the response is parsed
ClassifyParse ==
    /\ scenario = "classify" /\ phase = "call" /\ calling /\ returned
    /\ analysis' = _parse_simple_response(ret, docText)
    /\ calling' = FALSE
    /\ phase' = "parsed"
    /\ UNCHANGED <<engineVars, scenario, client, attempt, requests, returned, ret, log,
                   docText, metadata, inflight>>
    /\ UNCHANGED <<batchVars, criteriaVars>>
    /\ UNCHANGED <<checklistVars, pipelineVars>>

\* analyze_documents: the metadata record of the analysed document
ClassifyMetadata ==
    /\ scenario = "classify" /\ phase = "parsed"
    /\ metadata' = _create_safe_metadata(analysis)
    /\ phase' = "done"
    /\ UNCHANGED <<engineVars, scenario, client, retryVars, docText, analysis, inflight>>
    /\ UNCHANGED <<batchVars, criteriaVars>>
    /\ UNCHANGED <<checklistVars, pipelineVars>>

\* batch_compliance_check: the loop calls check_with_semaphore for the next
\* requirement, which takes the semaphore and starts check_policy_compliance
BatchStart ==
    /\ scenario = "batch" /\ phase = "loop" /\ ~calling
    /\ Len(calls) < Len(requirements)
    /\ inflight < BatchSemaphore
    /\ inflight' = inflight + 1
    /\ calling' = TRUE
    /\ attempt' = 0 /\ requests' = 0 /\ returned' = FALSE
    /\ ret' = EmptyText /\ log' = <<>>
    /\ UNCHANGED <<engineVars, scenario, client, phase>>
    /\ UNCHANGED <<classifyVars, batchVars, criteriaVars>>
    /\ UNCHANGED <<checklistVars, pipelineVars>>

\* BatchFinish appending only the results of answered calls
BatchFinishSkipsFailed ==
    /\ scenario = "batch" /\ phase = "loop" /\ calling /\ returned
    /\ LET req == requirements[Len(calls) + 1]
       IN  /\ results' = IF Fate(log) = "answered"
                         THEN Append(results, _parse_compliance_response(ret, req))
                         ELSE results
           /\ calls' = Append(calls, [fate |-> Fate(log), ret |-> ret])
    /\ inflight' = inflight - 1
    /\ calling' = FALSE
    /\ UNCHANGED <<engineVars, scenario, client, phase, attempt, requests, returned, ret, log,
                   requirements>>
    /\ UNCHANGED <<classifyVars, criteriaVars>>
    /\ UNCHANGED <<checklistVars, pipelineVars>>

\* the call returned: the response is parsed, the semaphore released and the
\* result appended
BatchFinish ==
    /\ scenario = "batch" /\ phase = "loop" /\ calling /\ returned
    /\ LET req == requirements[Len(calls) + 1]
       IN  /\ results' = Append(results, _parse_compliance_response(ret, req))
           /\ calls' = Append(calls, [fate |-> Fate(log), ret |-> ret])
    /\ inflight' = inflight - 1
    /\ calling' = FALSE
    /\ UNCHANGED <<engineVars, scenario, client, phase, attempt, requests, returned, ret, log,
                   requirements>>
    /\ UNCHANGED <<classifyVars, criteriaVars>>
    /\ UNCHANGED <<checklistVars, pipelineVars>>

\* the loop is over: batch_compliance_check and _check_compliance_safely return
BatchReturn ==
    /\ scenario = "batch" /\ phase = "loop" /\ ~calling
    /\ Len(calls) >= Len(requirements)
    /\ phase' = "done"
    /\ UNCHANGED <<engineVars, scenario, client, inflight>>
    /\ UNCHANGED <<retryVars, classifyVars, batchVars, criteriaVars>>
    /\ UNCHANGED <<checklistVars, pipelineVars>>

\* CritAcquire when the task does not wait for the semaphore
CritAcquireUnguarded(i) ==
    /\ scenario = "criteria" /\ phase = "gather"
    /\ tasks[i].st = "waiting"
    /\ \A j \in 1..(i - 1) : tasks[j].st # "waiting"
    /\ inflight' = inflight + 1
    /\ tasks' = [tasks EXCEPT ![i].st = "running"]
    /\ UNCHANGED <<engineVars, scenario, client, phase, doneOrder, critResults>>
    /\ UNCHANGED <<retryVars, classifyVars, batchVars>>
    /\ UNCHANGED <<checklistVars, pipelineVars>>

\* analyze_single_criteria(i) takes the semaphore; asyncio wakes waiters in the
\* order they queued, which is the order gather created the tasks in
CritAcquire(i) ==
    /\ scenario = "criteria" /\ phase = "gather"
    /\ tasks[i].st = "waiting"
    /\ \A j \in 1..(i - 1) : tasks[j].st # "waiting"
    /\ inflight < CriteriaSemaphore
    /\ inflight' = inflight + 1
    /\ tasks' = [tasks EXCEPT ![i].st = "running"]
    /\ UNCHANGED <<engineVars, scenario, client, phase, doneOrder, critResults>>
    /\ UNCHANGED <<retryVars, classifyVars, batchVars>>
    /\ UNCHANGED <<checklistVars, pipelineVars>>

\* one iteration of generate_with_context inside task i; when the call returns
\* the response is parsed and the semaphore released
CritAttempt(i) ==
    /\ scenario = "criteria" /\ phase = "gather"
    /\ tasks[i].st = "running"
    /\ \E o \in CriteriaOutcomes :
         LET t == tasks[i]
             s == RetryStep("policy",
                            [attempt |-> t.attempt, requests |-> t.requests, log |-> <<>>], o)
             f == t.failedOnly /\ o.kind # "ok"
         IN  IF s.returned
             THEN /\ tasks' = [tasks EXCEPT ![i] =
                         [st |-> "done", attempt |-> 0, requests |-> 0,
                          failedOnly |-> f,
                          result |-> _parse_criteria_analysis(s.ret, criteria_framework[i])]]
                  /\ inflight' = inflight - 1
                  /\ doneOrder' = Append(doneOrder, i)
             ELSE /\ tasks' = [tasks EXCEPT ![i] =
                         [t EXCEPT !.attempt = s.attempt, !.requests = s.requests,
                                   !.failedOnly = f]]
                  /\ UNCHANGED <<inflight, doneOrder>>
    /\ UNCHANGED <<engineVars, scenario, client, phase, critResults>>
    /\ UNCHANGED <<retryVars, classifyVars, batchVars>>
    /\ UNCHANGED <<checklistVars, pipelineVars>>

\* CritGather collecting the results as the tasks complete
CritGatherByCompletion ==
    /\ scenario = "criteria" /\ phase = "gather"
    /\ \A i \in 1..NumCriteria : tasks[i].st = "done"
    /\ critResults' = [k \in 1..NumCriteria |-> tasks[doneOrder[k]].result]
    /\ phase' = "done"
    /\ UNCHANGED <<engineVars, scenario, client, inflight, tasks, doneOrder>>
    /\ UNCHANGED <<retryVars, classifyVars, batchVars>>
    /\ UNCHANGED <<checklistVars, pipelineVars>>

\* asyncio.gather: the list of the tasks' results, in the order of the tasks
CritGather ==
    /\ scenario = "criteria" /\ phase = "gather"
    /\ \A i \in 1..NumCriteria : tasks[i].st = "done"
    /\ critResults' = [i \in 1..NumCriteria |-> tasks[i].result]
    /\ phase' = "done"
    /\ UNCHANGED <<engineVars, scenario, client, inflight, tasks, doneOrder>>
    /\ UNCHANGED <<retryVars, classifyVars, batchVars>>
    /\ UNCHANGED <<checklistVars, pipelineVars>>

\* _extract_requirements_safely: the list handed to the evaluation
ExtractRequirements ==
    /\ scenario = "requirements" /\ phase = "extract"
    /\ requirements' = _extract_requirements_safely(analysis)
    /\ phase' = "done"
    /\ UNCHANGED <<engineVars, scenario, client, inflight, results, calls>>
    /\ UNCHANGED <<retryVars, classifyVars, criteriaVars, checklistVars, pipelineVars>>

\* generate_intelligent_checklist: the requirements and the results are paired
ChecklistItems ==
    /\ scenario = "items" /\ phase = "start" /\ analysis_context = "complete"
    /\ policy_items' = _create_safe_policy_items(requirements, results)
    /\ phase' = "assess"
    /\ UNCHANGED <<engineVars, scenario, client, inflight, analysis_context, assessment, checklist>>
    /\ UNCHANGED <<retryVars, classifyVars, batchVars, criteriaVars, pipelineVars>>

\* generate_intelligent_checklist: the overall assessment of the items
ChecklistAssess ==
    /\ scenario \in {"items", "assess"} /\ phase = "assess"
    /\ assessment' = _generate_assessment_safely(policy_items)
    /\ phase' = "feedback"
    /\ UNCHANGED <<engineVars, scenario, client, inflight, analysis_context, policy_items, checklist>>
    /\ UNCHANGED <<retryVars, classifyVars, batchVars, criteriaVars, pipelineVars>>

\* generate_intelligent_checklist: the checklist is built and returned
ChecklistBuild ==
    /\ scenario \in {"items", "assess"} /\ phase = "feedback"
    /\ checklist' = PolicyChecklist(policy_items,
                                    _create_comprehensive_feedback(policy_items, assessment),
                                    assessment.strategic_recommendations)
    /\ phase' = "done"
    /\ UNCHANGED <<engineVars, scenario, client, inflight, analysis_context, policy_items, assessment>>
    /\ UNCHANGED <<retryVars, classifyVars, batchVars, criteriaVars, pipelineVars>>

\* generate_intelligent_checklist: an exception in the body (the KeyError of a
\* context without its keys) returns the fallback checklist
ChecklistFallback ==
    /\ scenario = "items" /\ phase = "start" /\ analysis_context = "incomplete"
    /\ checklist' = _create_fallback_checklist
    /\ phase' = "done"
    /\ UNCHANGED <<engineVars, scenario, client, inflight, analysis_context, policy_items, assessment>>
    /\ UNCHANGED <<retryVars, classifyVars, batchVars, criteriaVars, pipelineVars>>

\* rewards_analysis_pipeline: update_progress("Phase 1: ...") writes the
\* progress file
PipelineStart ==
    /\ scenario = "pipeline" /\ phase = "start"
    /\ files' = files \cup {"progress"}
    /\ progress_info' = "Phase 1: Document Processing"
    /\ performed' = performed \cup {"processing"}
    /\ phase' = "extract"
    /\ UNCHANGED <<engineVars, scenario, client, inflight, docs, texts, error_msg, reply>>
    /\ UNCHANGED <<retryVars, classifyVars, batchVars, criteriaVars, checklistVars>>

\* the text of the next document is extracted and its length tested; a text
\* that is too short raises, the handler writes the error file and the finally
\* clause removes the progress file
PipelineExtract ==
    /\ scenario = "pipeline" /\ phase = "extract"
    /\ LET i == Len(texts) + 1
           text == intelligent_extract_text(docs[i]).extracted_text
       IN  IF text < MinTextLen
           THEN /\ error_msg' = [kind |-> "insufficient readable text", doc |-> i]
                /\ files' = (files \cup {"error"}) \ {"progress"}
                /\ progress_info' = ""
                /\ phase' = "finished"
                /\ UNCHANGED texts
           ELSE /\ texts' = Append(texts, text)
                /\ phase' = IF i = Len(docs) THEN "understand" ELSE "extract"
                /\ UNCHANGED <<error_msg, files, progress_info>>
    /\ UNCHANGED <<engineVars, scenario, client, inflight, docs, performed, reply>>
    /\ UNCHANGED <<retryVars, classifyVars, batchVars, criteriaVars, checklistVars>>

\* PipelineAnalyse when the handler of the pipeline writes no error file
PipelineAnalyseNoErrorFile ==
    /\ scenario = "pipeline" /\ phase = "understand"
    /\ performed' = performed \cup {"understanding"}
    /\ error_msg' = [kind |-> "no attribute comprehensive_policy_analysis", doc |-> 0]
    /\ files' = files \ {"progress"}
    /\ progress_info' = ""
    /\ phase' = "finished"
    /\ UNCHANGED <<engineVars, scenario, client, inflight, docs, texts, reply>>
    /\ UNCHANGED <<retryVars, classifyVars, batchVars, criteriaVars, checklistVars>>

\* update_progress("Phase 2: ..."), then the call of
\* compliance_engine.comprehensive_policy_analysis: IntelligentComplianceEngine
\* has no such method, the AttributeError is handled like any exception and
\* lines 816-829 (the report) are never run
PipelineAnalyse ==
    /\ scenario = "pipeline" /\ phase = "understand"
    /\ performed' = performed \cup {"understanding"}
    /\ error_msg' = [kind |-> "no attribute comprehensive_policy_analysis", doc |-> 0]
    /\ files' = (files \cup {"error"}) \ {"progress"}
    /\ progress_info' = ""
    /\ phase' = "finished"
    /\ UNCHANGED <<engineVars, scenario, client, inflight, docs, texts, reply>>
    /\ UNCHANGED <<retryVars, classifyVars, batchVars, criteriaVars, checklistVars>>

\* GET /status/{task_id} is served; the handler has no await, so it runs
\* between two steps of the pipeline, or before the first, or after the last
StatusQuery ==
    /\ scenario = "pipeline"
    /\ reply' = StatusReply(files, ErrorFile(error_msg), progress_info)
    /\ UNCHANGED <<engineVars, scenario, client, inflight, phase>>
    /\ UNCHANGED <<docs, texts, files, error_msg, performed, progress_info>>
    /\ UNCHANGED <<retryVars, classifyVars, batchVars, criteriaVars, checklistVars>>

\* generate / _generate_completion: the prompt is cut and put in the payload
\* of the request
PromptSend ==
    /\ scenario = "prompt" /\ phase = "call"
    /\ payload' = PayloadPrompt(client, prompt)
    /\ phase' = "sent"
    /\ UNCHANGED <<startupVars, runVars, contextVars, prompt>>
    /\ UNCHANGED <<scenario, client, inflight>>
    /\ UNCHANGED <<retryVars, classifyVars, batchVars, criteriaVars>>
    /\ UNCHANGED <<checklistVars, pipelineVars>>

\* lifespan: policy_analyzer is created and its initialize() awaited, which
\* opens the session and returns when _ensure_model_available has returned
LifespanPolicy ==
    /\ scenario = "startup" /\ phase = "boot"
    /\ session' = [session EXCEPT !["policy"] = TRUE]
    /\ model_checked' = [model_checked EXCEPT !["policy"] = TRUE]
    /\ phase' = "policy_ready"
    /\ UNCHANGED <<promptVars, runVars, contextVars, init_task, served>>
    /\ UNCHANGED <<scenario, client, inflight>>
    /\ UNCHANGED <<retryVars, classifyVars, batchVars, criteriaVars>>
    /\ UNCHANGED <<checklistVars, pipelineVars>>

\* lifespan: IntelligentComplianceEngine() creates its analyzer and schedules
\* analyzer.initialize() with asyncio.create_task; __init__ returns at once,
\* lifespan goes on to its yield and requests are served
LifespanEngine ==
    /\ scenario = "startup" /\ phase = "policy_ready"
    /\ init_task' = "scheduled"
    /\ phase' = "serving"
    /\ UNCHANGED <<promptVars, runVars, contextVars, session, model_checked, served>>
    /\ UNCHANGED <<scenario, client, inflight>>
    /\ UNCHANGED <<retryVars, classifyVars, batchVars, criteriaVars>>
    /\ UNCHANGED <<checklistVars, pipelineVars>>

\* the scheduled task runs IntelligentAnalyzer.initialize up to its await:
\* the session is opened and the request of _ensure_model_available is made
InitTaskOpen ==
    /\ scenario = "startup" /\ init_task = "scheduled"
    /\ session' = [session EXCEPT !["ollama"] = TRUE]
    /\ init_task' = "checking"
    /\ UNCHANGED <<promptVars, runVars, contextVars, model_checked, served>>
    /\ UNCHANGED <<scenario, client, inflight, phase>>
    /\ UNCHANGED <<retryVars, classifyVars, batchVars, criteriaVars>>
    /\ UNCHANGED <<checklistVars, pipelineVars>>

\* _ensure_model_available returns in the scheduled task
InitTaskChecked ==
    /\ scenario = "startup" /\ init_task = "checking"
    /\ model_checked' = [model_checked EXCEPT !["ollama"] = TRUE]
    /\ init_task' = "done"
    /\ UNCHANGED <<promptVars, runVars, contextVars, session, served>>
    /\ UNCHANGED <<scenario, client, inflight, phase>>
    /\ UNCHANGED <<retryVars, classifyVars, batchVars, criteriaVars>>
    /\ UNCHANGED <<checklistVars, pipelineVars>>

\* a request is handled and generate is called on client c; no method of the
\* engine or of its analyzer waits for the scheduled task
ClientGenerate(c) ==
    /\ scenario = "startup" /\ phase = "serving"
    /\ served' = served \cup {Served(c, session[c], model_checked[c])}
    /\ UNCHANGED <<promptVars, runVars, contextVars, session, model_checked, init_task>>
    /\ UNCHANGED <<scenario, client, inflight, phase>>
    /\ UNCHANGED <<retryVars, classifyVars, batchVars, criteriaVars>>
    /\ UNCHANGED <<checklistVars, pipelineVars>>

\* analyze_documents: comparison_context is computed from the two analyses
ContextDetermine ==
    /\ scenario = "context" /\ phase = "context"
    /\ comparison' = _determine_comparison_context(doc_types[1], doc_types[2])
    /\ phase' = "done"
    /\ UNCHANGED <<promptVars, startupVars, runVars, doc_types>>
    /\ UNCHANGED <<scenario, client, inflight>>
    /\ UNCHANGED <<retryVars, classifyVars, batchVars, criteriaVars>>
    /\ UNCHANGED <<checklistVars, pipelineVars>>

\* analyze_documents: analyze_document_type_and_structure is called on doc1,
\* and on doc2 when the call on doc1 has returned
RunClassifyBegin ==
    /\ scenario = "run" /\ phase \in {"run_start", "classified1"}
    /\ stage_log' = Append(stage_log,
           Event("classify", IF phase = "run_start" THEN 1 ELSE 2, "start"))
    /\ phase' = IF phase = "run_start" THEN "classifying1" ELSE "classifying2"
    /\ UNCHANGED <<promptVars, startupVars, contextVars>>
    /\ UNCHANGED <<scenario, client, inflight>>
    /\ UNCHANGED <<retryVars, classifyVars, batchVars, criteriaVars>>
    /\ UNCHANGED <<checklistVars, pipelineVars>>

\* the classification call returns; after the second one the context is built
\* and analyze_documents returns
RunClassifyEnd ==
    /\ scenario = "run" /\ phase \in {"classifying1", "classifying2"}
    /\ stage_log' = Append(stage_log,
           Event("classify", IF phase = "classifying1" THEN 1 ELSE 2, "end"))
    /\ phase' = IF phase = "classifying1" THEN "classified1" ELSE "classified"
    /\ UNCHANGED <<promptVars, startupVars, contextVars>>
    /\ UNCHANGED <<scenario, client, inflight>>
    /\ UNCHANGED <<retryVars, classifyVars, batchVars, criteriaVars>>
    /\ UNCHANGED <<checklistVars, pipelineVars>>

\* RunExtractBegin entered as soon as doc1 is classified
RunExtractBeginEarly ==
    /\ scenario = "run" /\ phase \in {"classified1", "classified"}
    /\ stage_log' = Append(stage_log, Event("extract", 0, "start"))
    /\ phase' = "extracting"
    /\ UNCHANGED <<promptVars, startupVars, contextVars>>
    /\ UNCHANGED <<scenario, client, inflight>>
    /\ UNCHANGED <<retryVars, classifyVars, batchVars, criteriaVars>>
    /\ UNCHANGED <<checklistVars, pipelineVars>>

\* generate_intelligent_checklist is called with the analysis returned and
\* awaits _extract_requirements_safely
RunExtractBegin ==
    /\ scenario = "run" /\ phase = "classified"
    /\ stage_log' = Append(stage_log, Event("extract", 0, "start"))
    /\ phase' = "extracting"
    /\ UNCHANGED <<promptVars, startupVars, contextVars>>
    /\ UNCHANGED <<scenario, client, inflight>>
    /\ UNCHANGED <<retryVars, classifyVars, batchVars, criteriaVars>>
    /\ UNCHANGED <<checklistVars, pipelineVars>>

\* _extract_requirements_safely returns the requirement list and
\* _check_compliance_safely enters batch_compliance_check
RunExtractEnd ==
    /\ scenario = "run" /\ phase = "extracting"
    /\ requirements' \in RequirementLists \ {<<>>}
    /\ stage_log' = Append(stage_log, Event("extract", 0, "end"))
    /\ phase' = "evaluating"
    /\ UNCHANGED <<promptVars, startupVars, contextVars>>
    /\ UNCHANGED <<scenario, client, inflight, results, calls>>
    /\ UNCHANGED <<retryVars, classifyVars, criteriaVars>>
    /\ UNCHANGED <<checklistVars, pipelineVars>>

\* batch_compliance_check: the loop awaits check_with_semaphore for the next
\* requirement, which takes the semaphore
RunEvaluateBegin ==
    /\ scenario = "run" /\ phase = "evaluating"
    /\ Events(stage_log, "evaluate", "start") < Len(requirements)
    /\ Events(stage_log, "evaluate", "start") = Events(stage_log, "evaluate", "end")
    /\ inflight < BatchSemaphore
    /\ inflight' = inflight + 1
    /\ stage_log' = Append(stage_log,
           Event("evaluate", Events(stage_log, "evaluate", "start") + 1, "start"))
    /\ UNCHANGED <<promptVars, startupVars, contextVars>>
    /\ UNCHANGED <<scenario, client, phase>>
    /\ UNCHANGED <<retryVars, classifyVars, batchVars, criteriaVars>>
    /\ UNCHANGED <<checklistVars, pipelineVars>>

\* check_policy_compliance returns or raises, the semaphore is released and
\* the result appended
RunEvaluateEnd ==
    /\ scenario = "run" /\ phase = "evaluating"
    /\ inflight > 0
    /\ inflight' = inflight - 1
    /\ stage_log' = Append(stage_log,
           Event("evaluate", Events(stage_log, "evaluate", "start"), "end"))
    /\ UNCHANGED <<promptVars, startupVars, contextVars>>
    /\ UNCHANGED <<scenario, client, phase>>
    /\ UNCHANGED <<retryVars, classifyVars, batchVars, criteriaVars>>
    /\ UNCHANGED <<checklistVars, pipelineVars>>

\* batch_compliance_check has returned: _create_safe_policy_items and
\* _generate_assessment_safely are entered
RunAggregateBegin ==
    /\ scenario = "run" /\ phase = "evaluating"
    /\ Events(stage_log, "evaluate", "end") = Len(requirements)
    /\ stage_log' = Append(stage_log, Event("aggregate", 0, "start"))
    /\ phase' = "aggregating"
    /\ UNCHANGED <<promptVars, startupVars, contextVars>>
    /\ UNCHANGED <<scenario, client, inflight>>
    /\ UNCHANGED <<retryVars, classifyVars, batchVars, criteriaVars>>
    /\ UNCHANGED <<checklistVars, pipelineVars>>

\* the PolicyChecklist is built and returned
RunAggregateEnd ==
    /\ scenario = "run" /\ phase = "aggregating"
    /\ stage_log' = Append(stage_log, Event("aggregate", 0, "end"))
    /\ phase' = "done"
    /\ UNCHANGED <<promptVars, startupVars, contextVars>>
    /\ UNCHANGED <<scenario, client, inflight>>
    /\ UNCHANGED <<retryVars, classifyVars, batchVars, criteriaVars>>
    /\ UNCHANGED <<checklistVars, pipelineVars>>

Next ==
    \/ RetryAttempt
    \/ ClassifyParse
    \/ ClassifyMetadata
    \/ BatchStart
    \/ BatchFinish
    \/ BatchReturn
    \/ \E i \in 1..NumCriteria : CritAcquire(i)
    \/ \E i \in 1..NumCriteria : CritAttempt(i)
    \/ CritGather
    \/ ExtractRequirements
    \/ ChecklistItems
    \/ ChecklistAssess
    \/ ChecklistBuild
    \/ ChecklistFallback
    \/ PipelineStart
    \/ PipelineExtract
    \/ PipelineAnalyse
    \/ StatusQuery
    \/ PromptSend
    \/ LifespanPolicy
    \/ LifespanEngine
    \/ InitTaskOpen
    \/ InitTaskChecked
    \/ \E c \in Clients : ClientGenerate(c)
    \/ ContextDetermine
    \/ RunClassifyBegin
    \/ RunClassifyEnd
    \/ RunExtractBegin
    \/ RunExtractEnd
    \/ RunEvaluateBegin
    \/ RunEvaluateEnd
    \/ RunAggregateBegin
    \/ RunAggregateEnd

Spec == Init /\ [][Next]_vars

----------------------------------------------------------------------------
(* Properties *)

BatchDone == scenario = "batch" /\ phase = "done"
CriteriaDone == scenario = "criteria" /\ phase = "done"
Classified == scenario = "classify" /\ phase \in {"parsed", "done"}
InCall == scenario = "retry" \/ calling

\* the synthetic neutral verdict of a requirement
Neutral(v, req) ==
    /\ v.status = "MODERATE"
    /\ v.priority = "MEDIUM"
    /\ v.compliance_percentage >= 50 /\ v.compliance_percentage <= 60
    /\ v.feedback = <<"Analysis of", req.item, "completed">>
    /\ v.comments = <<"Review of", req.item, "conducted">>
    /\ v.suggested_amendments = <<"Consider updating", req.item, "as needed">>

\* an attempt that ended in a transport error, a non-2xx status, a timeout, or
\* an output that is empty or shorter than 50 characters
FailedAttempt(o) ==
    \/ o.kind \in {"http", "timeout", "conn"}
    \/ o.kind = "ok" /\ o.len < 50

\* C1: when the batch evaluation returns, for every requirement list (the empty
\* one included) and every way the reasoning calls ended, the list of verdicts
\* is as long as the list of requirements.
C1_BatchLength ==
    BatchDone => Len(results) = Len(requirements)

C1_Witness ==
    /\ BatchDone
    /\ Len(requirements) = 2
    /\ calls[1].fate = "lost"
    /\ calls[2].fate = "answered"

\* C2: the i-th element of the list a batch returns is the result computed for
\* the i-th input (requirement or criteria), whatever the order in which the
\* per-item calls completed.
C2_OrderPreserved ==
    /\ BatchDone =>
         \A i \in 1..Len(results) :
            /\ i <= Len(requirements)
            /\ results[i] = _parse_compliance_response(calls[i].ret, requirements[i])
    /\ CriteriaDone =>
         \A i \in 1..NumCriteria :
            /\ critResults[i].criteria_id = criteria_framework[i].id
            /\ critResults[i] = tasks[i].result

C2_Witness ==
    /\ CriteriaDone
    /\ doneOrder[1] = 2
    /\ critResults[1].status = "MISSING"
    /\ critResults[2].status = "PRESENT"

\* C3: a requirement whose evaluation call timed out or raised on every attempt
\* gets the synthetic neutral verdict (MODERATE, MEDIUM, 50..60 %, generic
\* text), the requirements whose calls were answered keep the verdicts parsed
\* from their own responses, and the batch returns a verdict for each.
C3_FailureIsolation ==
    BatchDone =>
        /\ Len(results) = Len(calls)
        /\ \A i \in 1..Len(calls) :
              /\ calls[i].fate = "lost" => Neutral(results[i], requirements[i])
              /\ calls[i].fate = "answered" =>
                    results[i] = _parse_compliance_response(calls[i].ret, requirements[i])

C3_Witness ==
    /\ BatchDone
    /\ Len(requirements) = 2
    /\ calls[1].fate = "lost"
    /\ calls[1].ret = AllFailedText
    /\ calls[2].fate = "answered"
    /\ results[2].status = "ALIGNED"
    /\ results[2].compliance_percentage = 90

C5_RetriesEveryFailure ==
    scenario = "retry" =>
        \A k \in 1..Len(log) :
            /\ FailedAttempt(log[k].outcome) /\ k < max_retries => ~log[k].accepted
            /\ log[k].outcome.kind = "ok" /\ log[k].outcome.len >= 50
                   /\ log[k].outcome.pfx = ""
               => log[k].accepted

C7_FailedBackendYieldsDefaults ==
    /\ BatchDone =>
         \A i \in 1..Len(calls) :
            calls[i].fate # "answered" => Neutral(results[i], requirements[i])
    /\ (Classified /\ Fate(log) # "answered") =>
         analysis = _parse_simple_response(EmptyText, docText)
    /\ CriteriaDone =>
         \A i \in 1..NumCriteria :
            tasks[i].failedOnly =>
               critResults[i] = _create_fallback_criteria_analysis(criteria_framework[i])

\* C8: the document_type of every profile classification produces, in the
\* analysis dictionary and in the metadata record, is a member of DocumentType.
C8_DocumentTypeInEnum ==
    /\ Classified => analysis.document_type \in DocumentType
    /\ (scenario = "classify" /\ phase = "done") =>
         metadata.document_type \in DocumentType

\* C9: whenever the reasoning output names a recognized document type, LAW
\* included, the returned profile carries exactly that type; the keyword
\* heuristic decides only when it names none.
C9_RecognizedTypeKept ==
    Classified =>
        (Has(ret.content, "TYPE") /\ ret.content["TYPE"] \in RecognizedTypes
            => analysis.document_type = ret.content["TYPE"])

Populated(p) ==
    /\ p.title.len > 0 /\ p.title.lit # "None"
    /\ p.authority.len > 0 /\ p.authority.lit # "None"
    /\ Len(p.scope) >= 1 /\ Len(p.scope) <= 5
    /\ Len(p.key_topics) >= 1 /\ Len(p.key_topics) <= 8
    /\ \A k \in 1..Len(p.scope) : p.scope[k] # ""
    /\ \A k \in 1..Len(p.key_topics) : p.key_topics[k] # ""

\* C10: for every text and every reasoning output, the profile classification
\* returns (dictionary and metadata record) has a non-empty title, authority,
\* scope (at most 5 entries) and key_topics (at most 8); an authority the output
\* does not give is the placeholder "Legal Authority" and a scope it does not
\* give, or gives empty, is ["general"].
C10_ProfilePopulated ==
    /\ Classified =>
         /\ Populated(analysis)
         /\ ~Has(ret.content, "AUTHORITY") =>
               analysis.authority = Str("Legal Authority", 15)
         /\ (~Has(ret.content, "SCOPE") \/ Pieces(ret.content["SCOPE"]) = <<>>) =>
               analysis.scope = <<"general">>
    /\ (scenario = "classify" /\ phase = "done") => Populated(metadata)

C10_Witness ==
    /\ scenario = "classify" /\ phase = "done"
    /\ Has(ret.content, "SCOPE")
    /\ Len(ret.content["SCOPE"]) = 6
    /\ Len(metadata.scope) = 5

RequirementsDone == scenario = "requirements" /\ phase = "done"
ItemsMade == scenario = "items" /\ analysis_context = "complete" /\ phase # "start"
ChecklistDone == scenario \in {"items", "assess"} /\ phase = "done"
Assessed == scenario \in {"items", "assess"} /\ phase \in {"feedback", "done"}
               /\ analysis_context = "complete"
PipelineFinished == scenario = "pipeline" /\ phase = "finished"

\* C11: for every key_topics list of the reference profile, the requirement
\* list handed to the evaluation has at least 1 and at most 12 entries.
C11_RequirementsBounded ==
    RequirementsDone => Len(requirements) >= 1 /\ Len(requirements) <= 12

C11_Witness ==
    /\ RequirementsDone
    /\ Len(analysis.key_topics) = 4
    /\ Len(FallbackRequirementsUncut(analysis)) = 14
    /\ Len(requirements) = 12

\* the categories that occur in a requirement list
CategoriesOf(reqs) == {reqs[k].category : k \in 1..Len(reqs)}

\* C12 as stated: the fallback requirement set has at least 10 requirements and
\* every category of the closed set is the category of one of them.
C12_FallbackSpansEveryCategory ==
    RequirementsDone =>
        /\ Len(requirements) >= 10
        /\ Categories \subseteq CategoriesOf(requirements)
        /\ Len(EngineFallbackRequirements) >= 10
        /\ Categories \subseteq CategoriesOf(EngineFallbackRequirements)

\* C12 as amended: the fallback requirement set has at least 10 requirements,
\* the category of each is in the closed set, and every category of the set but
\* intellectual_property and other is the category of one of them.
C12_FallbackSpansCoreCategories ==
    RequirementsDone =>
        /\ Len(requirements) >= 10
        /\ CategoriesOf(requirements) \subseteq Categories
        /\ Categories \ {"intellectual_property", "other"}
              \subseteq CategoriesOf(requirements)
        /\ Len(EngineFallbackRequirements) >= 10
        /\ CategoriesOf(EngineFallbackRequirements) \subseteq Categories
        /\ Categories \ {"intellectual_property", "other"}
              \subseteq CategoriesOf(EngineFallbackRequirements)

C12_Witness ==
    /\ RequirementsDone
    /\ analysis.key_topics = <<(<<"leave">>), (<<"health", "and", "safety">>)>>
    /\ Len(requirements) = 10

\* the requirements that are given an item by the loop
Paired == 1..Min(Len(requirements), Len(results))

\* C13: the category of the checklist item made for a requirement is a member
\* of the closed category set, "other" when the requirement carries a value
\* outside the set, and the requirement's category when that is in the set.
C13_CategoryCoerced ==
    ItemsMade =>
        \A i \in Paired :
            LET req == requirements[i]
                valid == Has(req, "category") /\ req["category"] \in Categories
            IN  /\ policy_items[i].category \in Categories
                /\ valid => policy_items[i].category = req["category"]
                /\ ~valid => policy_items[i].category = "other"

\* the status a verdict has to get for the status word d states (d maps the
\* label to the word, when the output states one)
StatusFor(d, label, up(_)) ==
    IF Has(d, label) /\ up(d[label]) \in {"ALIGNED", "MODERATE", "UNALIGNED"}
    THEN up(d[label]) ELSE "MODERATE"

\* C14: the status of every verdict parsed from a reasoning output, and of every
\* checklist item made from a verdict record, is ALIGNED, MODERATE or UNALIGNED:
\* the status word stated when that is one of the three (in any case of the
\* letters), MODERATE when none is stated or the word is another one.
C14_StatusClosed ==
    /\ BatchDone =>
         \A i \in 1..Len(results) :
            /\ results[i].status \in {"ALIGNED", "MODERATE", "UNALIGNED"}
            /\ results[i].status = StatusFor(calls[i].ret.content, "STATUS", Upper)
    /\ ItemsMade =>
         \A i \in Paired :
            /\ policy_items[i].status \in {"ALIGNED", "MODERATE", "UNALIGNED"}
            /\ results[i].isdict =>
                  policy_items[i].status = StatusFor(results[i].d, "status", UpperStatus)

C14_Witness ==
    /\ BatchDone
    /\ Len(results) = 2
    /\ Has(calls[1].ret.content, "STATUS")
    /\ calls[1].ret.content["STATUS"] = "unaligned"
    /\ results[1].status = "UNALIGNED"
    /\ Has(calls[2].ret.content, "STATUS")
    /\ calls[2].ret.content["STATUS"] = "PARTIAL"
    /\ results[2].status = "MODERATE"

\* one item per requirement, the synthetic verdict standing in for a verdict
\* that is missing or no record
SafePolicyItemsPadded(reqs, compliance_results) ==
    [i \in 1..Len(reqs) |->
        SafePolicyItem(reqs[i],
                       IF i <= Len(compliance_results) THEN compliance_results[i]
                       ELSE [isdict |-> FALSE, d |-> NoContent])]

\* C15: for every requirement list and every verdict list (shorter, longer, with
\* entries that are no records) the items made are one per requirement, in the
\* order of the requirements, each from the verdict at its position or, where
\* that is missing or no record, from the synthetic MODERATE verdict.
C15_OneItemPerRequirement ==
    ItemsMade =>
        /\ Len(policy_items) = Len(requirements)
        /\ policy_items = SafePolicyItemsPadded(requirements, results)

\* the sum of three fractions is 100
SumsTo100(p, q, r) ==
    p.num * q.den * r.den + q.num * p.den * r.den + r.num * p.den * q.den
        = 100 * p.den * q.den * r.den

\* C16: in the statistics of every checklist returned, the normal and the
\* fallback one, aligned + moderate + unaligned = total, total is the number of
\* items, and the three percentages sum to 100.
C16_StatisticsAddUp ==
    ChecklistDone =>
        LET st == checklist.overall_feedback.statistics
        IN  /\ st.aligned + st.moderate + st.unaligned = st.total
            /\ st.total = Len(checklist.items)
            /\ SumsTo100(st.alignment_percentage, st.moderate_percentage,
                         st.unaligned_percentage)

C16_Witness ==
    /\ ChecklistDone
    /\ scenario = "items"
    /\ analysis_context = "complete"
    /\ Len(requirements) = 2 /\ Len(results) = 3
    /\ checklist.overall_feedback.statistics.aligned = 1
    /\ checklist.overall_feedback.statistics.unaligned = 1
    /\ checklist.overall_feedback.statistics.total = 2

\* the maturity level of an aligned percentage
MaturityOf(score) ==
    IF Below(score, 40) THEN "BASIC"
    ELSE IF Below(score, 70) THEN "DEVELOPING"
    ELSE IF Below(score, 90) THEN "ADVANCED"
    ELSE "LEADING"

\* C17: the compliance_maturity of an assessment is BASIC for an aligned
\* percentage below 40, DEVELOPING from 40 to below 70, ADVANCED from 70 to
\* below 90 and LEADING from 90.
C17_MaturityThresholds ==
    Assessed =>
        LET score == Percent(Count(policy_items, "ALIGNED"), Len(policy_items))
        IN  /\ assessment.compliance_maturity = MaturityOf(score)
            /\ phase = "done" =>
                  checklist.overall_feedback.compliance_maturity = MaturityOf(score)

\* a document whose extraction failed or gave fewer than 200 characters
TooShort(pdf) == pdf.raises \/ pdf.chars < MinTextLen

\* C18: a run with a reference or target document whose extraction failed or
\* gave fewer than 200 characters ends in the error state with the message of
\* insufficient text, without entering the understanding phase; a run whose
\* texts all have exactly 200 characters enters it.
C18_ShortTextRefused ==
    PipelineFinished =>
        /\ (\E i \in 1..Len(docs) : TooShort(docs[i])) =>
              /\ get_analysis_status(files) = "error"
              /\ error_msg.kind = "insufficient readable text"
              /\ "understanding" \notin performed
        /\ (\A i \in 1..Len(docs) : ~docs[i].raises /\ docs[i].chars = MinTextLen) =>
              "understanding" \in performed

\* C19: a run that failed because a text is too short has produced a summary
\* of exactly one checklist item, of category error or analysis, and a report.
C19_FailedRunHasSummary ==
    (PipelineFinished /\ error_msg.kind = "insufficient readable text") =>
        /\ Len(checklist.items) = 1
        /\ checklist.items[1].category \in {"error", "analysis"}
        /\ "report" \in files

\* C20: a run whose texts all have 200 characters or more is never reported as
\* error and, when it has finished, is reported as completed.
C20_ValidRunCompletes ==
    (scenario = "pipeline" /\ \A i \in 1..Len(docs) : ~TooShort(docs[i])) =>
        /\ get_analysis_status(files) # "error"
        /\ phase = "finished" => get_analysis_status(files) = "completed"

\* the status the task is reported with
StatusNow == StatusReply(files, ErrorFile(error_msg), progress_info).status

\* C21: whatever the pipeline has done when a status query is served, the
\* reply has status processing, completed or error, and a reply of status
\* error has a message and the text of the error file, neither of them empty.
C21_StatusReplyClosed ==
    (scenario = "pipeline" /\ reply # NoReply) =>
        /\ reply.status \in {"processing", "completed", "error"}
        /\ reply.status = "error" =>
              /\ reply.message # ""
              /\ reply.error.pfx # ""
              /\ reply.error.kind # ""

C21_Witness ==
    /\ scenario = "pipeline"
    /\ phase = "finished"
    /\ reply.status = "error"
    /\ reply.error.kind = "insufficient readable text"
    /\ reply.error.doc = 2

EventsBefore(n, stage, edge) == Events(SubSeq(stage_log, 1, n - 1), stage, edge)

\* C22: in the log of a run, requirement extraction begins after both
\* classifications have ended, an evaluation call begins after requirement
\* extraction has ended, and aggregation begins after every requirement has
\* had its evaluation call and every evaluation call has ended.
C22_StagesOrdered ==
    scenario = "run" =>
        \A n \in 1..Len(stage_log) :
            LET e == stage_log[n]
            IN  /\ (e.stage = "extract" /\ e.edge = "start") =>
                      EventsBefore(n, "classify", "end") = 2
                /\ (e.stage = "evaluate" /\ e.edge = "start") =>
                      EventsBefore(n, "extract", "end") = 1
                /\ (e.stage = "aggregate" /\ e.edge = "start") =>
                      /\ EventsBefore(n, "evaluate", "start") = Len(requirements)
                      /\ EventsBefore(n, "evaluate", "end") = Len(requirements)

C22_Witness ==
    /\ scenario = "run"
    /\ phase = "done"
    /\ Len(requirements) = 2
    /\ Events(stage_log, "evaluate", "end") = 2
    /\ Events(stage_log, "classify", "end") = 2

\* the per-item calls that hold the semaphore of analyze_criteria_coverage
Running == {i \in 1..Len(tasks) : tasks[i].st = "running"}

\* C23: the per-item reasoning calls in flight are at most 1 in
\* batch_compliance_check and at most 2 in analyze_criteria_coverage, and
\* never more than 3.
C23_InFlightBounded ==
    /\ scenario \in {"batch", "run"} => inflight <= 1
    /\ scenario = "criteria" => inflight <= 2 /\ Cardinality(Running) <= 2
    /\ inflight <= 3

C23_Witness ==
    /\ scenario = "criteria"
    /\ inflight = 2
    /\ Cardinality(Running) = 2
    /\ \E i \in 1..Len(tasks) : tasks[i].st = "waiting"


\* the fields of a summary and of its overall_feedback
SummaryFields(c) == DOMAIN c \cup DOMAIN c.overall_feedback

\* C24: when checklist generation raises, the summary returned is not the
\* null one, has exactly one checklist item, and has a field that flags the
\* error and a field with the error message.
C24_FallbackCarriesError ==
    (scenario = "items" /\ analysis_context = "incomplete" /\ phase = "done") =>
        /\ checklist # NoChecklist
        /\ Len(checklist.items) = 1
        /\ "error" \in SummaryFields(checklist)
        /\ "error_message" \in SummaryFields(checklist)

\* C25: the prompt of a request is the caller's prompt when that has at most
\* MAX_PROMPT_LENGTH characters, and otherwise its first MAX_PROMPT_LENGTH
\* characters followed by the truncation marker; no request holds more than
\* MAX_PROMPT_LENGTH characters of the caller's prompt.
C25_PromptCapped ==
    (scenario = "prompt" /\ phase = "sent") =>
        /\ prompt <= MAX_PROMPT_LENGTH => payload = Prompt(1, prompt, "")
        /\ prompt > MAX_PROMPT_LENGTH =>
              payload = Prompt(1, MAX_PROMPT_LENGTH, TruncationMarker(client))
        /\ TruncationMarker(client) # ""
        /\ payload.last - payload.first + 1 <= MAX_PROMPT_LENGTH

C25_Witness ==
    /\ scenario = "prompt"
    /\ phase = "sent"
    /\ prompt = MAX_PROMPT_LENGTH + 1
    /\ payload.last = MAX_PROMPT_LENGTH
    /\ payload.marker = "...[content truncated for analysis]"

\* C26: every generate call found the session of its client open and the
\* check of the model returned.
C26_InitializedBeforeGenerate ==
    \A r \in served : r.session /\ r.checked

\* C27: the compliance_maturity of a summary returned, the fallback one
\* included, is the level of its aligned percentage: BASIC below 40,
\* DEVELOPING below 70, ADVANCED below 90, LEADING from 90.
C27_MaturityOfEverySummary ==
    ChecklistDone =>
        checklist.overall_feedback.compliance_maturity
            = MaturityOf(checklist.overall_feedback.statistics.alignment_percentage)

\* the synthesized requirements for a topic in a requirement list
Synthesized(reqs, topic) ==
    {k \in 1..Len(reqs) : /\ reqs[k].chapter = "Additional Requirements"
                          /\ reqs[k].item = topic \o <<"compliance">>}

\* a topic that an item of the canonical requirements contains
Covered(topic) ==
    \E k \in 1..Len(essential_requirements) :
        Contains(essential_requirements[k].item, topic)

\* C28: the fallback requirement list has exactly one synthesized requirement
\* for each of the first 3 key_topics that no canonical requirement covers,
\* and none for one that is covered.
C28_OneRequirementPerTopic ==
    RequirementsDone =>
        \A n \in 1..Min(3, Len(analysis.key_topics)) :
            LET topic == analysis.key_topics[n]
            IN  Cardinality(Synthesized(requirements, topic))
                    = IF Covered(topic) THEN 0 ELSE 1

\* C29: the comparison context names doc1 and doc2, one as law_doc and the
\* other as contract_doc; law_doc is reference_doc and contract_doc is
\* target_doc.
C29_ContextConsistent ==
    (scenario = "context" /\ phase = "done") =>
        /\ {comparison.law_doc, comparison.contract_doc} = {"doc1", "doc2"}
        /\ comparison.law_doc = comparison.reference_doc
        /\ comparison.contract_doc = comparison.target_doc

====
